---- MODULE Spec2Model ----
(***************************************************************************)
(* Model of the daily reporter's collection + deduplication pipeline:      *)
(* the SQLite history store, the Deduplicator, the tiered Collector and    *)
(* the run() orchestrator with its auto-disable / re-run pass.             *)
(*                                                                         *)
(* Text (titles, error messages) is a sequence of one-character strings,   *)
(* so that lower-casing, tokenising and substring search are computed and  *)
(* not assumed.  Time is an integer number of hours since an epoch that    *)
(* falls on a Sunday 00:00 UTC.                                            *)
(***************************************************************************)
EXTENDS Integers, Sequences, FiniteSets, TLC

(***************************************************************************)
(* Bounds of the model                                                     *)
(***************************************************************************)
MaxBatch == 2
MaxTicks == 2
MaxErrors == 2
MaxConcurrency == 2
MaxStoreTime == 2

(* null / undefined of an optional field *)
Null == 0 - 1
(* new Date(s).getTime() is NaN *)
NaN == 0 - 2

Range(s) == {s[i] : i \in DOMAIN s}

RECURSIVE Flatten(_)
Flatten(ss) == IF ss = <<>> THEN <<>> ELSE Head(ss) \o Flatten(Tail(ss))

(***************************************************************************)
(* Text helpers (String.prototype.toLowerCase, includes, RegExp classes)   *)
(***************************************************************************)
UpperAlpha == <<"A","B","C","D","E","F","G","H","I","J","K","L","M",
                "N","O","P","Q","R","S","T","U","V","W","X","Y","Z">>
LowerAlpha == <<"a","b","c","d","e","f","g","h","i","j","k","l","m",
                "n","o","p","q","r","s","t","u","v","w","x","y","z">>
Digits == <<"0","1","2","3","4","5","6","7","8","9">>

ToLowerChar(c) ==
  IF \E i \in DOMAIN UpperAlpha : UpperAlpha[i] = c
  THEN LowerAlpha[CHOOSE i \in DOMAIN UpperAlpha : UpperAlpha[i] = c]
  ELSE c

toLowerCase(s) == [i \in DOMAIN s |-> ToLowerChar(s[i])]

(* s.includes(p): p occurs in s as a contiguous substring *)
RECURSIVE includes(_, _)
includes(s, p) ==
  IF Len(p) > Len(s) THEN FALSE
  ELSE IF SubSeq(s, 1, Len(p)) = p THEN TRUE
  ELSE includes(Tail(s), p)

IsAlnum(c) == c \in Range(UpperAlpha) \cup Range(LowerAlpha) \cup Range(Digits)
IsSpace(c) == c \in {" ", "\t"}

(***************************************************************************)
(* similarity.ts                                                           *)
(***************************************************************************)
(* Non-ASCII code units are written by name: "FW_a" is the full-width    *)
(* letter a (U+FF41), "FW_1" the full-width digit 1, "IDSP" the           *)
(* ideographic space (U+3000), "JA_x" a Japanese character.               *)
FullWidth == <<"FW_a", "FW_b", "FW_1">>
HalfWidth == <<"a", "b", "1">>

FoldChar(c) ==
  IF \E i \in DOMAIN FullWidth : FullWidth[i] = c
  THEN HalfWidth[CHOOSE i \in DOMAIN FullWidth : FullWidth[i] = c]
  ELSE IF c = "IDSP" THEN " " ELSE c

RECURSIVE CollapseSpaces(_)
CollapseSpaces(s) ==
  IF s = <<>> THEN <<>>
  ELSE IF IsSpace(Head(s))
       THEN IF Len(s) > 1 /\ IsSpace(s[2])
            THEN CollapseSpaces(Tail(s))
            ELSE <<" ">> \o CollapseSpaces(Tail(s))
       ELSE <<Head(s)>> \o CollapseSpaces(Tail(s))

Trim(s) ==
  LET a == IF s # <<>> /\ Head(s) = " " THEN Tail(s) ELSE s
  IN IF a # <<>> /\ a[Len(a)] = " " THEN SubSeq(a, 1, Len(a) - 1) ELSE a

(* toLowerCase runs before the full-width fold, as in the source *)
normalizeText(text) ==
  Trim(CollapseSpaces([i \in DOMAIN text |-> FoldChar(ToLowerChar(text[i]))]))

(* normalized.match(/[a-zA-Z0-9]+/g): the maximal alphanumeric runs *)
RECURSIVE WordRuns(_, _)
WordRuns(s, cur) ==
  IF s = <<>> THEN (IF cur = <<>> THEN {} ELSE {cur})
  ELSE IF IsAlnum(Head(s)) THEN WordRuns(Tail(s), Append(cur, Head(s)))
  ELSE (IF cur = <<>> THEN {} ELSE {cur}) \cup WordRuns(Tail(s), <<>>)

tokenize(text) ==
  LET normalized == normalizeText(text)
      words == {toLowerCase(w) : w \in WordRuns(normalized, <<>>)}
      japanese == SelectSeq(normalized, LAMBDA c : ~IsAlnum(c) /\ ~IsSpace(c))
      bigrams == {SubSeq(japanese, i, i + 1) : i \in 1..(Len(japanese) - 1)}
      single == IF Len(japanese) = 1 THEN {japanese} ELSE {}
  IN words \cup bigrams \cup single

(* calculateJaccardSimilarity(text1, text2) >= pct / 100 *)
JaccardGte(text1, text2, pct) ==
  LET tokens1 == tokenize(text1)
      tokens2 == tokenize(text2)
  IN IF tokens1 = {} /\ tokens2 = {} THEN 100 >= pct
     ELSE IF tokens1 = {} \/ tokens2 = {} THEN 0 >= pct
     ELSE Cardinality(tokens1 \cap tokens2) * 100
            >= pct * Cardinality(tokens1 \cup tokens2)

Min2(a, b) == IF a < b THEN a ELSE b
Max2(a, b) == IF a > b THEN a ELSE b

(* one row of the Wagner-Fischer table, built left to right *)
RECURSIVE LevRow(_, _, _, _, _)
LevRow(c, s2, prevRow, currRow, j) ==
  IF j > Len(s2) THEN currRow
  ELSE LET cost == IF c = s2[j] THEN 0 ELSE 1
           v == Min2(Min2(prevRow[j + 1] + 1, currRow[j] + 1), prevRow[j] + cost)
       IN LevRow(c, s2, prevRow, Append(currRow, v), j + 1)

RECURSIVE LevRows(_, _, _, _)
LevRows(s1, s2, prevRow, i) ==
  IF i > Len(s1) THEN prevRow
  ELSE LevRows(s1, s2, LevRow(s1[i], s2, prevRow, <<i>>, 1), i + 1)

(* the edit distance and the length it is divided by: <<distance, maxLength>> *)
calculateLevenshteinDistance(text1, text2) ==
  LET s1 == normalizeText(text1)
      s2 == normalizeText(text2)
  IN IF s1 = s2 THEN <<0, 1>>
     ELSE IF Len(s1) = 0 \/ Len(s2) = 0 THEN <<1, 1>>
     ELSE <<LevRows(s1, s2, [j \in 1..(Len(s2) + 1) |-> j - 1], 1)[Len(s2) + 1],
            Max2(Len(s1), Len(s2))>>

LevenshteinLte(text1, text2, pct) ==
  LET d == calculateLevenshteinDistance(text1, text2)
  IN d[1] * 100 <= pct * d[2]

(* the DedupThresholds configuration; a missing category or source falls  *)
(* back to "default" and then to the literals of the source               *)
DedupThresholds ==
  [thresholds |-> [default |-> [jaccard_gte |-> 70, levenshtein_lte |-> 30]],
   layer2_fallback |-> [default |-> [same_domain |-> 85, cross_domain |-> 90]]]

(* source.includes(...) and hostname.includes(...) over the ids and hosts  *)
(* of the sample data                                                      *)
detectCategory(source, url) ==
  IF source \in {"arxiv"} THEN "arxiv"
  ELSE IF source \in {"openai_news", "techcrunch"} THEN "news"
  ELSE IF source \in {"anthropic_blog", "qiita", "zenn"} THEN "blog"
  ELSE IF ~url.ok THEN "default"
  ELSE IF url.host \in {"arxiv.org"} THEN "arxiv"
  ELSE IF url.host \in {"techcrunch.com"} THEN "news"
  ELSE IF url.host \in {"qiita.com", "zenn.dev"} THEN "blog"
  ELSE "default"

(* checkSimilarity(...).isDuplicate *)
checkSimilarity(title1, title2, thresholds, source, url) ==
  LET category == detectCategory(source, url)
      threshold == IF category \in DOMAIN thresholds.thresholds
                   THEN thresholds.thresholds[category]
                   ELSE thresholds.thresholds["default"]
  IN \/ JaccardGte(title1, title2, threshold.jaccard_gte)
     \/ LevenshteinLte(title1, title2, threshold.levenshtein_lte)

checkLayer2Similarity(title1, title2, isSameDomain, thresholds, source) ==
  LET fallback == IF source \in DOMAIN thresholds.layer2_fallback
                  THEN thresholds.layer2_fallback[source]
                  ELSE thresholds.layer2_fallback["default"]
      threshold == IF isSameDomain THEN fallback.same_domain ELSE fallback.cross_domain
  IN JaccardGte(title1, title2, threshold)

(* score = jaccard + (1 - levenshtein) > highestScore = 0 *)
ScorePositive(title1, title2) ==
  LET d == calculateLevenshteinDistance(title1, title2)
  IN JaccardGte(title1, title2, 1) \/ d[1] < d[2]

(* findMostSimilar(...) # null *)
findMostSimilar(targetTitle, existingTitles, thresholds, source, url) ==
  \E i \in DOMAIN existingTitles :
     /\ checkSimilarity(targetTitle, existingTitles[i], thresholds, source, url)
     /\ ScorePositive(targetTitle, existingTitles[i])

(* djb2 over the normalised title in 32-bit arithmetic, kept as two       *)
(* 16-bit halves; the result is Math.abs(hash), the number whose base-16  *)
(* digits are returned                                                     *)
CharCodes == [c \in Range(LowerAlpha) \cup Range(Digits) \cup {" ", "!"} |->
  IF c = " " THEN 32
  ELSE IF c = "!" THEN 33
  ELSE IF c \in Range(Digits) THEN 47 + CHOOSE i \in DOMAIN Digits : Digits[i] = c
  ELSE 96 + CHOOSE i \in DOMAIN LowerAlpha : LowerAlpha[i] = c]

charCodeAt(c) == IF c \in DOMAIN CharCodes THEN CharCodes[c] ELSE 12354

RECURSIVE Djb2(_, _, _)
Djb2(s, hi, lo) ==
  IF s = <<>> THEN <<hi, lo>>
  ELSE LET l == lo * 33 + charCodeAt(Head(s))
           h == hi * 33 + (l \div 65536)
       IN Djb2(Tail(s), h % 65536, l % 65536)

calculateTitleHash(title) ==
  LET h == Djb2(normalizeText(title), 0, 5381)
  IN IF h[1] < 32768 THEN h[1] * 65536 + h[2]
     ELSE (65535 - h[1]) * 65536 + (65536 - h[2])

(***************************************************************************)
(* url-normalizer.ts                                                       *)
(* A URL string is the record of its parts: ok (new URL() accepts it),     *)
(* scheme, hostUpper (the host is written with capitals), www (number of   *)
(* leading "www." labels), host, path (segments, "" between two slashes),  *)
(* slash (trailing slash), params (query parameter names in order), frag   *)
(* (has a #fragment), date (a /YYYY/MM/DD date in the path, or Null).      *)
(***************************************************************************)
(* the parameter names of the sample data in the order of Array.sort()   *)
ParamOrder == <<"fbclid", "id", "page", "ref", "utm_source">>

SortParams(ps) == SelectSeq(ParamOrder, LAMBDA n : n \in Range(ps))

(* path segments written with percent escapes: what decodeURIComponent,   *)
(* split('/') and encodeURIComponent make of each. %2F decodes to a slash *)
(* and splits the segment; %7E decodes to ~, which is not encoded again;  *)
(* %20 and %25 are encoded again as they were; hex digits come back in    *)
(* capitals; any other segment of the sample data has no escape           *)
EscapedSegments ==
  [seg \in {"%2F", "a%2Fb", "a%2F%2Fb", "%7Ea", "a%20b", "a%252Fb", "%c3%a9"} |->
     CASE seg = "%2F" -> <<"", "">>
       [] seg = "a%2Fb" -> <<"a", "b">>
       [] seg = "a%2F%2Fb" -> <<"a", "", "b">>
       [] seg = "%7Ea" -> <<"~a">>
       [] seg = "%c3%a9" -> <<"%C3%A9">>
       [] OTHER -> <<seg>>]

(* escapes decodeURIComponent throws URIError on *)
MalformedSegments == {"%zz", "%E3"}

(* the segments of the path after decoding and re-encoding; the path as   *)
(* it was when decoding throws                                             *)
decodeAndReencode(path) ==
  IF \E i \in DOMAIN path : path[i] \in MalformedSegments THEN path
  ELSE Flatten([i \in DOMAIN path |->
                  IF path[i] \in DOMAIN EscapedSegments THEN EscapedSegments[path[i]]
                  ELSE <<path[i]>>])

(* replace(/\/+$/, ''): the segments before the trailing slashes *)
RECURSIVE StripTrailingSlashes(_)
StripTrailingSlashes(path) ==
  IF path # <<>> /\ path[Len(path)] = ""
  THEN StripTrailingSlashes(SubSeq(path, 1, Len(path) - 1))
  ELSE path

normalizeUrl(url, options) ==
  LET collapsed == SelectSeq(url.path, LAMBDA seg : seg # "")
      split == decodeAndReencode(collapsed) \o (IF url.slash THEN <<"">> ELSE <<>>)
      path == IF options.normalizeTrailingSlash THEN StripTrailingSlashes(split)
              ELSE split
  IN [ok |-> TRUE,
      scheme |-> IF url.scheme = "http" THEN "https" ELSE url.scheme,
      hostUpper |-> FALSE,
      www |-> IF url.www > 0 THEN url.www - 1 ELSE 0,
      host |-> url.host,
      path |-> IF path # <<>> /\ path[Len(path)] = ""
               THEN SubSeq(path, 1, Len(path) - 1) ELSE path,
      slash |-> path = <<>> \/ path[Len(path)] = "",
      params |-> SortParams(SelectSeq(url.params,
                                      LAMBDA n : n \notin options.removeParams)),
      frag |-> FALSE,
      date |-> url.date]

(* extractDomain throws on an unparsable URL, isSameDomain catches *)
extractDomain(url) == [host |-> url.host, www |-> IF url.www > 0 THEN url.www - 1 ELSE 0]

isSameDomain(url1, url2) ==
  url1.ok /\ url2.ok /\ extractDomain(url1) = extractDomain(url2)

(***************************************************************************)
(* date-parser.ts                                                          *)
(* A date text is [kind, v]: "absent" (undefined), "iso" (a timestamp      *)
(* Date can parse, v its time), "relative" ("v hours ago") or "garbage".   *)
(* A parse result is [date, confidence, source] with date = Null for null. *)
(***************************************************************************)
(* new Date(text).getTime() *)
DateParse(text) == IF text.kind = "iso" THEN text.v ELSE NaN

parseISODate(text) ==
  IF text.kind = "absent" \/ DateParse(text) = NaN
  THEN [date |-> Null, confidence |-> "unknown", source |-> "published_at"]
  ELSE [date |-> DateParse(text), confidence |-> "high", source |-> "published_at"]

(* the override pattern of a source is taken to match the same dates as   *)
(* the built-in patterns                                                   *)
parseDateFromUrl(url) ==
  IF url.date # Null
  THEN [date |-> url.date, confidence |-> "medium", source |-> "url_date"]
  ELSE [date |-> Null, confidence |-> "unknown", source |-> "url_date"]

parseRelativeTime(text, referenceDate) ==
  IF text.kind = "relative"
  THEN [date |-> referenceDate - text.v, confidence |-> "low", source |-> "relative_time"]
  ELSE [date |-> Null, confidence |-> "unknown", source |-> "relative_time"]

parseDateMultiLayer(publishedAt, url, relativeTimeText, referenceDate) ==
  IF publishedAt.kind # "absent" /\ parseISODate(publishedAt).date # Null
  THEN parseISODate(publishedAt)
  ELSE IF parseDateFromUrl(url).date # Null
  THEN parseDateFromUrl(url)
  ELSE IF relativeTimeText.kind # "absent"
          /\ parseRelativeTime(relativeTimeText, referenceDate).date # Null
  THEN parseRelativeTime(relativeTimeText, referenceDate)
  ELSE [date |-> Null, confidence |-> "unknown", source |-> "first_seen_at"]

parseDateByMethod(method, url, metaContent, referenceDate) ==
  CASE method \in {"html_meta", "api"} -> parseISODate(metaContent)
    [] method = "url_parse" -> parseDateFromUrl(url)
    [] method \in {"html_parse", "search_result"} ->
         IF metaContent.kind # "absent"
         THEN parseRelativeTime(metaContent, referenceDate)
         ELSE [date |-> Null, confidence |-> "unknown", source |-> "relative_time"]
    [] OTHER -> [date |-> Null, confidence |-> "unknown", source |-> "first_seen_at"]

HoursPerDay == 24
MondayWindowHours == 72
DefaultWindowHours == 24

(* now.getDay() in a process whose local time is UTC + tz hours *)
getDay(now, tz) == ((now + tz) \div HoursPerDay) % 7

calculateWindowStart(lastSuccessAt, now, tz) ==
  LET isMonday == getDay(now, tz) = 1
      threeDaysAgo == now - MondayWindowHours
  IN IF lastSuccessAt # Null
     THEN IF isMonday
          THEN (IF lastSuccessAt > threeDaysAgo THEN lastSuccessAt ELSE threeDaysAgo)
          ELSE lastSuccessAt
     ELSE IF isMonday THEN threeDaysAgo ELSE now - DefaultWindowHours

(* mutant: a date equal to windowStart is not fresh *)
checkFreshness_strictlyAfter(publishedAt, urlDate, relativeTimeParsed, firstSeenAt, windowStart) ==
  IF publishedAt # Null
  THEN [isFresh |-> publishedAt > windowStart, priority |-> "high",
        dateSource |-> "published_at"]
  ELSE IF urlDate # Null
  THEN [isFresh |-> urlDate > windowStart, priority |-> "normal",
        dateSource |-> "url_date"]
  ELSE IF relativeTimeParsed # Null
  THEN [isFresh |-> relativeTimeParsed > windowStart, priority |-> "normal",
        dateSource |-> "relative_time"]
  ELSE IF firstSeenAt # Null
  THEN [isFresh |-> firstSeenAt > windowStart, priority |-> "low",
        dateSource |-> "first_seen_at"]
  ELSE [isFresh |-> TRUE, priority |-> "low", dateSource |-> "none"]

(* mutant: an article without any date is not fresh *)
checkFreshness_undatedStale(publishedAt, urlDate, relativeTimeParsed, firstSeenAt, windowStart) ==
  IF publishedAt # Null
  THEN [isFresh |-> publishedAt >= windowStart, priority |-> "high",
        dateSource |-> "published_at"]
  ELSE IF urlDate # Null
  THEN [isFresh |-> urlDate >= windowStart, priority |-> "normal",
        dateSource |-> "url_date"]
  ELSE IF relativeTimeParsed # Null
  THEN [isFresh |-> relativeTimeParsed >= windowStart, priority |-> "normal",
        dateSource |-> "relative_time"]
  ELSE IF firstSeenAt # Null
  THEN [isFresh |-> firstSeenAt >= windowStart, priority |-> "low",
        dateSource |-> "first_seen_at"]
  ELSE [isFresh |-> FALSE, priority |-> "low", dateSource |-> "none"]

(* arguments are dates or Null; the Deduplicator never passes firstSeenAt *)
checkFreshness(publishedAt, urlDate, relativeTimeParsed, firstSeenAt, windowStart) ==
  IF publishedAt # Null
  THEN [isFresh |-> publishedAt >= windowStart, priority |-> "high",
        dateSource |-> "published_at"]
  ELSE IF urlDate # Null
  THEN [isFresh |-> urlDate >= windowStart, priority |-> "normal",
        dateSource |-> "url_date"]
  ELSE IF relativeTimeParsed # Null
  THEN [isFresh |-> relativeTimeParsed >= windowStart, priority |-> "normal",
        dateSource |-> "relative_time"]
  ELSE IF firstSeenAt # Null
  THEN [isFresh |-> firstSeenAt >= windowStart, priority |-> "low",
        dateSource |-> "first_seen_at"]
  ELSE [isFresh |-> TRUE, priority |-> "low", dateSource |-> "none"]

(***************************************************************************)
(* history-store.ts                                                        *)
(* The history table is the set of its rows.  The id column is left out:   *)
(* no query selects or orders by it.                                       *)
(***************************************************************************)
EmptyStore == {}

findByNormalizedUrl(store, normalizedUrl) ==
  {r \in store : r.normalizedUrl = normalizedUrl}

findExistingUrls(store, normalizedUrls) ==
  {r.normalizedUrl : r \in {x \in store : x.normalizedUrl \in Range(normalizedUrls)}}

(* SQL COALESCE; a TEXT column that holds a word has the null NullText *)
NullText == "NULL"
COALESCE(a, b) == IF a # Null THEN a ELSE b
COALESCEText(a, b) == IF a # NullText THEN a ELSE b

HistoryRow(entry) ==
  [url |-> entry.url,
   normalizedUrl |-> entry.normalizedUrl,
   title |-> entry.title,
   firstSeenAt |-> entry.firstSeenAt,
   lastSeenAt |-> entry.lastSeenAt,
   publishedAt |-> entry.publishedAt,
   dateConfidence |-> entry.dateConfidence,
   source |-> entry.source,
   titleHash |-> entry.titleHash,
   contentHash |-> entry.contentHash]

(* the CHECK constraint on date_confidence rejects the statement *)
DateConfidences == {"high", "medium", "low", "unknown"}
upsertThrows(entry) == entry.dateConfidence \notin DateConfidences \cup {NullText}

(* mutant: INSERT OR REPLACE - the row is rewritten from the entry *)
upsert_replaceRow(store, entry) ==
  {r \in store : r.normalizedUrl # entry.normalizedUrl} \cup {HistoryRow(entry)}

(* mutant: the lookup is skipped and a row is always inserted *)
upsert_insertOnly(store, entry) == store \cup {HistoryRow(entry)}

upsert(store, entry) ==
  IF findByNormalizedUrl(store, entry.normalizedUrl) # {}
  THEN {IF r.normalizedUrl = entry.normalizedUrl
        THEN [r EXCEPT
                !.lastSeenAt = entry.lastSeenAt,
                !.publishedAt = COALESCE(entry.publishedAt, @),
                !.dateConfidence = COALESCEText(entry.dateConfidence, @),
                !.titleHash = COALESCE(entry.titleHash, @),
                !.contentHash = COALESCE(entry.contentHash, @)]
        ELSE r : r \in store}
  ELSE store \cup {HistoryRow(entry)}

RECURSIVE bulkUpsert(_, _)
bulkUpsert(store, entries) ==
  IF entries = <<>> THEN store
  ELSE bulkUpsert(upsert(store, Head(entries)), Tail(entries))

(* mutant: the loop runs outside a transaction, every statement commits *)
transaction_autocommit(committed, work) == work

(* db.transaction(fn): what the database holds for its readers while the   *)
(* statements of fn have run on `work` and COMMIT has not                  *)
transaction(committed, work) == committed

(* mutant: the rows are selected by last_seen_at *)
cleanup_byLastSeen(store, cutoffDate) == {r \in store : ~(r.lastSeenAt < cutoffDate)}

(* DELETE FROM history WHERE first_seen_at < cutoff *)
cleanup(store, cutoffDate) == {r \in store : ~(r.firstSeenAt < cutoffDate)}

(* result.changes of the DELETE *)
cleanupChanges(store, cutoffDate) ==
  Cardinality(store) - Cardinality(cleanup(store, cutoffDate))

calculateCutoffDate(now, retentionDays) == now - retentionDays * HoursPerDay

(***************************************************************************)
(* deduplicator/index.ts                                                   *)
(* A RawArticle is [url, title, source, publishedAt, dateMetaContent]      *)
(* with publishedAt and dateMetaContent date texts.                        *)
(***************************************************************************)
NormalizedUrlOf(article, urlNormalization) ==
  IF article.url.ok THEN normalizeUrl(article.url, urlNormalization)
  ELSE article.url

WithNormalizedUrl(article, urlNormalization) ==
  [url |-> article.url, title |-> article.title, source |-> article.source,
   publishedAt |-> article.publishedAt, dateMetaContent |-> article.dateMetaContent,
   normalizedUrl |-> NormalizedUrlOf(article, urlNormalization)]

RECURSIVE DedupByUrlLoop(_, _, _, _)
DedupByUrlLoop(articles, urlNormalization, seen, result) ==
  IF articles = <<>> THEN result
  ELSE LET a == WithNormalizedUrl(Head(articles), urlNormalization)
       IN IF a.normalizedUrl \notin seen
          THEN DedupByUrlLoop(Tail(articles), urlNormalization,
                              seen \cup {a.normalizedUrl}, Append(result, a))
          ELSE DedupByUrlLoop(Tail(articles), urlNormalization, seen, result)

(* mutant: of the articles that share a normalizedUrl the last one is kept *)
deduplicateByUrl_keepLast(articles, urlNormalization) ==
  LET rev(s) == [i \in 1..Len(s) |-> s[Len(s) + 1 - i]]
  IN rev(DedupByUrlLoop(rev(articles), urlNormalization, {}, <<>>))

deduplicateByUrl(articles, urlNormalization) ==
  DedupByUrlLoop(articles, urlNormalization, {}, <<>>)

(* mutant: the history lookup is made with the raw URLs *)
deduplicateByHistory_rawUrl(store, articles) ==
  LET urls == [i \in DOMAIN articles |-> articles[i].url]
      existingUrls == findExistingUrls(store, urls)
  IN SelectSeq(articles, LAMBDA a : a.url \notin existingUrls)

deduplicateByHistory(store, articles) ==
  LET urls == [i \in DOMAIN articles |-> articles[i].normalizedUrl]
      existingUrls == findExistingUrls(store, urls)
  IN SelectSeq(articles, LAMBDA a : a.normalizedUrl \notin existingUrls)

(* Layer 2: some already processed title is a near-duplicate *)
Layer2Duplicate(article, result, processedTitles, thresholds) ==
  \E k \in DOMAIN processedTitles :
     LET existingTitle == processedTitles[k]
         sameDomain == \E i \in DOMAIN result :
                          /\ result[i].title = existingTitle
                          /\ isSameDomain(result[i].url, article.url)
     IN checkLayer2Similarity(article.title, existingTitle, sameDomain,
                              thresholds, article.source)

RECURSIVE DedupBySimilarityLoop(_, _, _, _)
DedupBySimilarityLoop(articles, thresholds, result, processedTitles) ==
  IF articles = <<>> THEN result
  ELSE LET article == Head(articles)
           keep == /\ ~Layer2Duplicate(article, result, processedTitles, thresholds)
                   /\ ~findMostSimilar(article.title, processedTitles, thresholds,
                                       article.source, article.url)
       IN IF keep
          THEN DedupBySimilarityLoop(Tail(articles), thresholds,
                                     Append(result, article),
                                     Append(processedTitles, article.title))
          ELSE DedupBySimilarityLoop(Tail(articles), thresholds, result, processedTitles)

deduplicateBySimilarity(articles, thresholds) ==
  DedupBySimilarityLoop(articles, thresholds, <<>>, <<>>)

(* dateMethodMap is a function from some source ids to a DateMethod *)
DateResultOf(article, dateMethodMap, now) ==
  IF article.publishedAt.kind # "absent"
  THEN IF DateParse(article.publishedAt) = NaN
       THEN [date |-> Null, confidence |-> "unknown", source |-> "first_seen_at"]
       ELSE [date |-> DateParse(article.publishedAt), confidence |-> "high",
             source |-> "published_at"]
  ELSE IF article.source \in DOMAIN dateMethodMap
  THEN parseDateByMethod(dateMethodMap[article.source], article.url,
                         article.dateMetaContent, now)
  ELSE parseDateMultiLayer([kind |-> "absent", v |-> 0], article.url,
                           [kind |-> "absent", v |-> 0], now)

ToFiltered(article, windowStart, dateMethodMap, now) ==
  LET dateResult == DateResultOf(article, dateMethodMap, now)
      freshnessResult ==
        checkFreshness(
          IF dateResult.source = "published_at" THEN dateResult.date ELSE Null,
          IF dateResult.source = "url_date" THEN dateResult.date ELSE Null,
          IF dateResult.source = "relative_time" THEN dateResult.date ELSE Null,
          Null, windowStart)
  IN [url |-> article.url, title |-> article.title, source |-> article.source,
      normalizedUrl |-> article.normalizedUrl,
      isNew |-> freshnessResult.isFresh,
      publishedAt |-> dateResult.date,
      dateConfidence |-> dateResult.confidence,
      dateSource |-> dateResult.source,
      freshnessPriority |-> freshnessResult.priority]

filterByFreshness(articles, windowStart, dateMethodMap, now) ==
  SelectSeq([i \in DOMAIN articles |->
               ToFiltered(articles[i], windowStart, dateMethodMap, now)],
            LAMBDA a : a.isNew \/ a.dateConfidence = "unknown")

HistoryEntriesOf(articles, now) ==
  [i \in DOMAIN articles |->
     [url |-> articles[i].url,
      normalizedUrl |-> articles[i].normalizedUrl,
      title |-> articles[i].title,
      firstSeenAt |-> now,
      lastSeenAt |-> now,
      publishedAt |-> articles[i].publishedAt,
      dateConfidence |-> articles[i].dateConfidence,
      source |-> articles[i].source,
      titleHash |-> calculateTitleHash(articles[i].title),
      contentHash |-> Null]]

updateHistory(store, articles, now) == bulkUpsert(store, HistoryEntriesOf(articles, now))

(* mutant: afterHistoryDedup counts the articles the history removed *)
deduplicate_removedCounts(store, options, articles, dateMethodMap, now, tz) ==
  LET urlDeduped == deduplicateByUrl(articles, options.urlNormalization)
      historyDeduped == deduplicateByHistory(store, urlDeduped)
      similarityDeduped == deduplicateBySimilarity(historyDeduped, options.thresholds)
      windowStart == calculateWindowStart(options.lastSuccessAt, now, tz)
      filtered == filterByFreshness(similarityDeduped, windowStart, dateMethodMap, now)
  IN [articles |-> filtered,
      stats |-> [totalInput |-> Len(articles),
                 afterUrlDedup |-> Len(urlDeduped),
                 afterHistoryDedup |-> Len(urlDeduped) - Len(historyDeduped),
                 afterSimilarityDedup |-> Len(similarityDeduped),
                 freshArticles |-> Len(SelectSeq(filtered, LAMBDA a : a.isNew))],
      store |-> updateHistory(store, filtered, now)]

(* mutant: the history is updated before the freshness filter *)
deduplicate_historyBeforeFilter(store, options, articles, dateMethodMap, now, tz) ==
  LET urlDeduped == deduplicateByUrl(articles, options.urlNormalization)
      historyDeduped == deduplicateByHistory(store, urlDeduped)
      similarityDeduped == deduplicateBySimilarity(historyDeduped, options.thresholds)
      windowStart == calculateWindowStart(options.lastSuccessAt, now, tz)
      filtered == filterByFreshness(similarityDeduped, windowStart, dateMethodMap, now)
      all == [i \in DOMAIN similarityDeduped |->
                ToFiltered(similarityDeduped[i], windowStart, dateMethodMap, now)]
  IN [articles |-> filtered,
      stats |-> [totalInput |-> Len(articles),
                 afterUrlDedup |-> Len(urlDeduped),
                 afterHistoryDedup |-> Len(historyDeduped),
                 afterSimilarityDedup |-> Len(similarityDeduped),
                 freshArticles |-> Len(SelectSeq(filtered, LAMBDA a : a.isNew))],
      store |-> updateHistory(store, all, now)]

(* Deduplicator.deduplicate: the result and the history store after it *)
deduplicate(store, options, articles, dateMethodMap, now, tz) ==
  LET urlDeduped == deduplicateByUrl(articles, options.urlNormalization)
      historyDeduped == deduplicateByHistory(store, urlDeduped)
      similarityDeduped == deduplicateBySimilarity(historyDeduped, options.thresholds)
      windowStart == calculateWindowStart(options.lastSuccessAt, now, tz)
      filtered == filterByFreshness(similarityDeduped, windowStart, dateMethodMap, now)
  IN [articles |-> filtered,
      stats |-> [totalInput |-> Len(articles),
                 afterUrlDedup |-> Len(urlDeduped),
                 afterHistoryDedup |-> Len(historyDeduped),
                 afterSimilarityDedup |-> Len(similarityDeduped),
                 freshArticles |-> Len(SelectSeq(filtered, LAMBDA a : a.isNew))],
      store |-> updateHistory(store, filtered, now)]

(***************************************************************************)
(* Sample data of the deduplication runs                                   *)
(***************************************************************************)
StartNow == 7 * HoursPerDay
TickHours == HoursPerDay

NoText == [kind |-> "absent", v |-> 0]
IsoText(t) == [kind |-> "iso", v |-> t]

UrlA ==
  [ok |-> TRUE, scheme |-> "https", hostUpper |-> FALSE, www |-> 0,
   host |-> "example.com", path |-> <<"a">>, slash |-> FALSE, params |-> <<>>,
   frag |-> FALSE, date |-> Null]
UrlATracked ==
  [ok |-> TRUE, scheme |-> "http", hostUpper |-> TRUE, www |-> 1,
   host |-> "example.com", path |-> <<"a">>, slash |-> TRUE,
   params |-> <<"utm_source">>, frag |-> TRUE, date |-> Null]
UrlB ==
  [ok |-> TRUE, scheme |-> "https", hostUpper |-> FALSE, www |-> 0,
   host |-> "new-site.com", path |-> <<"b">>, slash |-> FALSE, params |-> <<>>,
   frag |-> FALSE, date |-> Null]
UrlD ==
  [ok |-> TRUE, scheme |-> "https", hostUpper |-> FALSE, www |-> 0,
   host |-> "qiita.com", path |-> <<"2024", "d">>, slash |-> FALSE,
   params |-> <<"id">>, frag |-> FALSE, date |-> StartNow - TickHours]
UrlBad ==
  [ok |-> FALSE, scheme |-> "", hostUpper |-> FALSE, www |-> 0,
   host |-> "", path |-> <<"not a url">>, slash |-> FALSE, params |-> <<>>,
   frag |-> FALSE, date |-> Null]

RawArticle(url, title, source, publishedAt, dateMetaContent) ==
  [url |-> url, title |-> title, source |-> source,
   publishedAt |-> publishedAt, dateMetaContent |-> dateMetaContent]

ArtA == RawArticle(UrlA, <<"a","i"," ","x">>, "hackernews", IsoText(StartNow), NoText)
ArtATracked ==
  RawArticle(UrlATracked, <<"A","I"," ","X">>, "twitter", IsoText(StartNow), NoText)
ArtB ==
  RawArticle(UrlB, <<"n","e","w"," ","b"," ","c">>, "anthropic_blog", NoText, NoText)
ArtD ==
  RawArticle(UrlD, <<"N","e","w"," "," ","B"," ","c","!">>, "qiita", NoText,
             [kind |-> "relative", v |-> 2])
ArtBad == RawArticle(UrlBad, <<"z","z">>, "twitter", [kind |-> "garbage", v |-> 0], NoText)

SampleArticles == {ArtA, ArtATracked, ArtB, ArtD, ArtBad}

(* dedupOptions of run() *)
RunUrlNormalization ==
  [removeParams |-> {"utm_source", "utm_medium", "utm_campaign", "ref", "source"},
   normalizeTrailingSlash |-> TRUE,
   lowercaseHost |-> TRUE]

DedupOptions(lastSuccessAt) ==
  [thresholds |-> DedupThresholds,
   urlNormalization |-> RunUrlNormalization,
   lastSuccessAt |-> lastSuccessAt]

EmptyDateMethodMap == [s \in {} |-> "api"]
SampleDateMethodMap == [s \in {"hackernews", "qiita"} |->
                          IF s = "qiita" THEN "url_parse" ELSE "search_result"]
DefaultRetentionDays == 90
RetentionChoices == {1, DefaultRetentionDays}

(* the batches handed to deduplicate: up to MaxBatch different sample     *)
(* articles in any order (ArtA and ArtATracked are one page twice)        *)
Batches ==
  UNION {{b \in [1..n -> SampleArticles] : \A i \in 1..n, j \in 1..n : b[i] = b[j] => i = j} :
           n \in 0..MaxBatch}

(***************************************************************************)
(* index.ts: findAbortHeavySourceIds                                       *)
(* A CollectionError is [sourceId, errorType, message, retryCount].        *)
(***************************************************************************)
AbortedByUser == <<"a","b","o","r","t","e","d"," ","b","y"," ","u","s","e","r">>
ProcessAborted == <<"p","r","o","c","e","s","s"," ","a","b","o","r","t","e","d">>
OperationAborted == <<"o","p","e","r","a","t","i","o","n"," ","a","b","o","r","t","e","d">>

(* mutant: the message is searched without lower-casing it *)
IsAbortMessage_caseSensitive(message) ==
  \/ includes(message, AbortedByUser)
  \/ includes(message, ProcessAborted)
  \/ includes(message, OperationAborted)

IsAbortMessage(message) ==
  LET normalizedMessage == toLowerCase(message)
  IN \/ includes(normalizedMessage, AbortedByUser)
     \/ includes(normalizedMessage, ProcessAborted)
     \/ includes(normalizedMessage, OperationAborted)

(* the Set keeps insertion order and ignores a repeated add *)
RECURSIVE AbortLoop(_, _)
AbortLoop(errors, sourceIds) ==
  IF errors = <<>> THEN sourceIds
  ELSE LET error == Head(errors)
       IN IF error.retryCount < 1 THEN AbortLoop(Tail(errors), sourceIds)
          ELSE IF IsAbortMessage(error.message) /\ error.sourceId \notin Range(sourceIds)
          THEN AbortLoop(Tail(errors), Append(sourceIds, error.sourceId))
          ELSE AbortLoop(Tail(errors), sourceIds)

findAbortHeavySourceIds(errors) == AbortLoop(errors, <<>>)

(* sample messages *)
MsgClaudeAborted == <<"C","l","a","u","d","e"," ","C","o","d","e"," ","p","r","o","c","e","s","s"," ","a","b","o","r","t","e","d"," ","b","y"," ","u","s","e","r">>
MsgOperationAborted == <<"O","p","e","r","a","t","i","o","n"," ","a","b","o","r","t","e","d">>
MsgTimeout == <<"r","e","q","u","e","s","t"," ","t","i","m","e","o","u","t">>
MsgAbortedOnly == <<"a","b","o","r","t","e","d",","," ","u","s","e","r">>
SampleMessages == {MsgClaudeAborted, MsgOperationAborted, MsgTimeout, MsgAbortedOnly}

(***************************************************************************)
(* collector/index.ts                                                      *)
(* The sources configuration is [sources, rateControl]: sources is the     *)
(* sequence of SourceConfig in file order, each [id, tier, enabled,        *)
(* collectMethod, hasTarget] with hasTarget saying that the url (WebFetch) *)
(* or the query (WebSearch) of the task is present.                        *)
(***************************************************************************)
SourceDefs ==
  << [id |-> "twitter",        tier |-> 3, collectMethod |-> "WebSearch", hasTarget |-> TRUE],
     [id |-> "hackernews",     tier |-> 1, collectMethod |-> "WebSearch", hasTarget |-> TRUE],
     [id |-> "qiita",          tier |-> 2, collectMethod |-> "WebSearch", hasTarget |-> TRUE],
     [id |-> "anthropic_blog", tier |-> 1, collectMethod |-> "WebFetch",  hasTarget |-> TRUE],
     [id |-> "zenn",           tier |-> 1, collectMethod |-> "WebFetch",  hasTarget |-> FALSE] >>

SourceIds == {SourceDefs[i].id : i \in DOMAIN SourceDefs}

(* the sources file with the given enabled flags *)
SourcesConfig(enabled, maxConcurrency) ==
  [sources |-> [i \in DOMAIN SourceDefs |->
                  [id |-> SourceDefs[i].id, tier |-> SourceDefs[i].tier,
                   enabled |-> enabled[SourceDefs[i].id],
                   collectMethod |-> SourceDefs[i].collectMethod,
                   hasTarget |-> SourceDefs[i].hasTarget]],
   rateControl |-> [maxConcurrency |-> maxConcurrency]]

(* what the page of each source lists *)
SourceArticles(id) ==
  CASE id = "hackernews" -> <<ArtA>>
    [] id = "twitter" -> <<ArtATracked, ArtBad>>
    [] id = "anthropic_blog" -> <<ArtB>>
    [] id = "qiita" -> <<ArtD>>
    [] OTHER -> <<>>

NoError == <<>>
CollectionError(sourceId, errorType, message, retryCount) ==
  [sourceId |-> sourceId, errorType |-> errorType, message |-> message,
   retryCount |-> retryCount]

MsgInvalidTask == <<"I","n","v","a","l","i","d"," ","t","a","s","k">>
MsgParse == <<"N","o"," ","J","S","O","N">>
MsgRepairFailed == <<"J","S","O","N"," ","r","e","p","a","i","r"," ","f","a","i","l","e","d">>
MsgThrown == <<"t","h","r","o","w","n">>

EnabledSources(sourcesConfig) == SelectSeq(sourcesConfig.sources, LAMBDA src : src.enabled)
TierSources(sourcesConfig, t) ==
  SelectSeq(EnabledSources(sourcesConfig), LAMBDA src : src.tier = t)

(* mutant: the slice takes one element too many *)
RECURSIVE chunkArray_offByOne(_, _)
chunkArray_offByOne(array, size) ==
  IF array = <<>> THEN <<>>
  ELSE <<SubSeq(array, 1, Min2(size + 1, Len(array)))>>
         \o chunkArray_offByOne(SubSeq(array, Min2(size, Len(array)) + 1, Len(array)), size)

(* for size >= 1 *)
RECURSIVE chunkArray(_, _)
chunkArray(array, size) ==
  IF array = <<>> THEN <<>>
  ELSE <<SubSeq(array, 1, Min2(size, Len(array)))>>
         \o chunkArray(SubSeq(array, Min2(size, Len(array)) + 1, Len(array)), size)

(* retryStrictJsonRepairIfNeeded is tried for this task *)
(* mutant: the repair fetch is made for any source *)
RepairEligible_anySource(source) == source.hasTarget

RepairEligible(source) ==
  source.id = "anthropic_blog" /\ source.collectMethod = "WebFetch" /\ source.hasTarget

Fulfilled(articles, error, calls) ==
  [status |-> "fulfilled", articles |-> articles, error |-> error, calls |-> calls]
Rejected(calls) ==
  [status |-> "rejected", articles |-> <<>>, error |-> NoError, calls |-> calls]

(* The settled promise of collectFromSource(source).  io is what the      *)
(* outside world does during the call: io.throws (an exception escapes),  *)
(* io.fetch = [success, error] the executor's result, io.parse =          *)
(* [n, parseError] the number of articles parseCollectionResult recovers  *)
(* and whether it reports an error, io.repairFetch and io.repairParse the *)
(* same for the strict-JSON repair call.  calls counts executor calls.    *)
collectFromSource(source, dryRun, io) ==
  LET arts(n) == SubSeq(SourceArticles(source.id), 1, Min2(n, Len(SourceArticles(source.id))))
      parseErr(msg) == <<CollectionError(source.id, "parse", msg, 0)>>
  IN IF dryRun THEN Fulfilled(<<>>, NoError, 0)
     ELSE IF ~source.hasTarget
     THEN Fulfilled(<<>>, <<CollectionError(source.id, "unknown", MsgInvalidTask, 0)>>, 0)
     ELSE IF io.throws THEN Rejected(1)
     ELSE IF ~io.fetch.success THEN Fulfilled(<<>>, <<io.fetch.error>>, 1)
     ELSE IF ~io.parse.parseError THEN Fulfilled(arts(io.parse.n), NoError, 1)
     ELSE IF ~RepairEligible(source) THEN Fulfilled(arts(io.parse.n), parseErr(MsgParse), 1)
     ELSE IF ~io.repairFetch.success THEN Fulfilled(<<>>, parseErr(MsgRepairFailed), 2)
     ELSE IF ~io.repairParse.parseError THEN Fulfilled(arts(io.repairParse.n), NoError, 2)
     ELSE Fulfilled(arts(io.repairParse.n), parseErr(MsgRepairFailed), 2)

(* the status that collectSources records for a settled task *)
StatusOf(result) ==
  IF result.status = "fulfilled"
  THEN (IF result.error # NoError THEN "partial" ELSE "success")
  ELSE "failed"

ErrorsOf(source, result) ==
  IF result.status = "fulfilled" THEN result.error
  ELSE <<CollectionError(source.id, "unknown", MsgThrown, 0)>>

EmptyAcc == [articles |-> <<>>, errors |-> <<>>, status |-> [x \in {} |-> "success"]]

(* mutant: the results are read from the last to the first *)
ChunkIndexes_reversed(chunk) == [i \in DOMAIN chunk |-> Len(chunk) + 1 - i]

(* for (let i = 0; i < results.length; i++) *)
ChunkIndexes(chunk) == [i \in DOMAIN chunk |-> i]

(* the loop over the results of one chunk; results maps the id of a       *)
(* settled task to its result, a task without result is skipped           *)
RECURSIVE ProcessResults(_, _, _, _)
ProcessResults(chunk, indexes, results, acc) ==
  IF indexes = <<>> THEN acc
  ELSE LET source == chunk[Head(indexes)]
       IN IF source.id \notin DOMAIN results
          THEN ProcessResults(chunk, Tail(indexes), results, acc)
          ELSE LET result == results[source.id]
               IN ProcessResults(chunk, Tail(indexes), results,
                    [articles |-> acc.articles \o result.articles,
                     errors |-> acc.errors \o ErrorsOf(source, result),
                     status |-> [x \in DOMAIN acc.status \cup {source.id} |->
                                   IF x = source.id THEN StatusOf(result)
                                   ELSE acc.status[x]]])

(* Object.assign(sourcesStatus, tierResults.status) and the two pushes *)
MergeTier(acc, tierAcc) ==
  [articles |-> acc.articles \o tierAcc.articles,
   errors |-> acc.errors \o tierAcc.errors,
   status |-> [x \in DOMAIN acc.status \cup DOMAIN tierAcc.status |->
                 IF x \in DOMAIN tierAcc.status THEN tierAcc.status[x]
                 ELSE acc.status[x]]]

(* mutant: Promise.race - the await ends with the first settled task *)
AllSettled_race(chunk, results) ==
  \E i \in DOMAIN chunk : chunk[i].id \in DOMAIN results

(* mutant: Promise.all - the await also ends once a task has rejected *)
AllSettled_failFast(chunk, results) ==
  \/ \A i \in DOMAIN chunk : chunk[i].id \in DOMAIN results
  \/ \E i \in DOMAIN chunk :
        chunk[i].id \in DOMAIN results /\ results[chunk[i].id].status = "rejected"

(* Promise.allSettled resolves when every task of the chunk has settled *)
AllSettled(chunk, results) ==
  \A i \in DOMAIN chunk : chunk[i].id \in DOMAIN results

(***************************************************************************)
(* config/loader.ts and index.ts                                           *)
(***************************************************************************)
(* mutant: the flags are changed in memory but the file is not written *)
disableSources_noWrite(sourceIds, file) ==
  [file |-> file,
   disabled |-> LET hit == SelectSeq(file.sources,
                                    LAMBDA src : src.id \in Range(sourceIds) /\ src.enabled)
                IN [i \in DOMAIN hit |-> hit[i].id],
   written |-> FALSE]

(* mutant: every requested source of the file is reported, enabled or not *)
disableSources_allRequested(sourceIds, file) ==
  LET hit == SelectSeq(file.sources, LAMBDA src : src.id \in Range(sourceIds))
  IN [file |-> [file EXCEPT !.sources =
                  [i \in DOMAIN file.sources |->
                     IF file.sources[i].id \in Range(sourceIds)
                     THEN [file.sources[i] EXCEPT !.enabled = FALSE]
                     ELSE file.sources[i]]],
      disabled |-> [i \in DOMAIN hit |-> hit[i].id],
      written |-> hit # <<>>]

(* disableSources(sourceIds): the sources file afterwards, the ids returned *)
(* and whether writeFileSync was called                                    *)
disableSources(sourceIds, file) ==
  LET hit == SelectSeq(file.sources, LAMBDA src : src.id \in Range(sourceIds) /\ src.enabled)
  IN [file |-> [file EXCEPT !.sources =
                  [i \in DOMAIN file.sources |->
                     IF file.sources[i].id \in Range(sourceIds)
                     THEN [file.sources[i] EXCEPT !.enabled = FALSE]
                     ELSE file.sources[i]]],
      disabled |-> [i \in DOMAIN hit |-> hit[i].id],
      written |-> hit # <<>>]

loadAllConfigs(file, lastSuccess) == [sources |-> file, lastSuccessAt |-> lastSuccess]

createCollector(sourcesConfig, dryRun) ==
  [sourcesConfig |-> sourcesConfig,
   maxConcurrency |-> sourcesConfig.rateControl.maxConcurrency,
   dryRun |-> dryRun]

(* sources whose configuration names a dateMethod *)
DateMethodMapOf(sourcesConfig) == SampleDateMethodMap

(* mutant: the auto-disable pass follows every collection *)
AfterCollect_loop(passes) == "autoDisable"

(* where run() continues when collectAll number `passes` has returned *)
AfterCollect(passes) == IF passes = 1 THEN "autoDisable" ELSE "dedup"

ShouldRerun(options, disabledSourceIds) ==
  Len(disabledSourceIds) > 0 /\ options.rerunAfterDisable

(***************************************************************************)
(* State                                                                   *)
(***************************************************************************)
VARIABLES
  store,          \* the history database file
  now,            \* the wall clock
  tz,             \* the local time zone of the process (hours east of UTC)
  op,             \* the Deduplicator operation that made the last step
  batch,          \* argument of the deduplicate call that just returned
  dedupResult,    \* [articles, stats] of the deduplicate call that just returned
  pc,             \* position of run()
  options,        \* RunOptions
  configOk,       \* validateConfigFiles().valid
  sourcesFile,    \* config/sources.json
  lastSuccessFile,\* data/last_success.json
  configs,        \* run(): configs
  collector,      \* run(): collector
  passes,         \* number of collectAll calls of this run
  collectionResult, \* run(): collectionResult
  disabledSourceIds, \* run(): disabledSourceIds
  report,         \* what was saved as the report
  runResult,      \* outcome of run()
  tier,           \* collectAll: the tier being collected (4: all done)
  chunks,         \* collectSources: chunks not yet started
  current,        \* collectSources: the chunk being awaited
  inflight,       \* ids of the collectFromSource calls that have not settled
  results,        \* settled results of the awaited chunk
  tierAcc,        \* collectSources: articles, errors, status
  acc,            \* collectAll: allArticles, errors, sourcesStatus
  attempts,       \* number of collectFromSource calls per source in this collectAll
  outcomes,       \* the settled result per source in this collectAll
  abortErrors,    \* argument of findAbortHeavySourceIds
  abortIds,       \* its result
  storeOp,        \* the HistoryStore method that made the last step
  storeArg,       \* its argument
  storeRet,       \* what it returned: [thrown, changes]
  txn,            \* the open transaction of bulkUpsert: [state, work, pending]
  call,           \* the last call of a pure function: [fn, args, ret]
  sh              \* the invocations of run-daily.sh and the lock directory

dedupVars == <<store, now, tz, op, batch, dedupResult>>
runVars == <<pc, options, configOk, sourcesFile, lastSuccessFile, configs, collector,
             passes, collectionResult, disabledSourceIds, report, runResult>>
collectVars == <<tier, chunks, current, inflight, results, tierAcc, acc, attempts, outcomes>>
abortVars == <<abortErrors, abortIds>>
storeVars == <<storeOp, storeArg, storeRet, txn>>
auxVars == <<call, sh>>
vars == <<dedupVars, runVars, collectVars, abortVars, storeVars, auxVars>>

NoResult ==
  [articles |-> <<>>,
   stats |-> [totalInput |-> 0, afterUrlDedup |-> 0, afterHistoryDedup |-> 0,
              afterSimilarityDedup |-> 0, freshArticles |-> 0]]

JST == 9
AllEnabled == [id \in SourceIds |-> TRUE]
EmptyMap == [x \in {} |-> 0]
NoReport == [saved |-> FALSE, articles |-> <<>>, collection |-> EmptyAcc]

(* values of the variables a specification does not use *)
DedupIdle ==
  /\ store = EmptyStore /\ now = StartNow /\ tz = JST
  /\ op = "idle" /\ batch = <<>> /\ dedupResult = NoResult
RunIdle ==
  /\ pc = "idle"
  /\ options = [dryRun |-> FALSE, autoDisableUnstableSources |-> TRUE,
                rerunAfterDisable |-> TRUE]
  /\ configOk = TRUE
  /\ sourcesFile = SourcesConfig(AllEnabled, 1)
  /\ lastSuccessFile = Null
  /\ configs = loadAllConfigs(SourcesConfig(AllEnabled, 1), Null)
  /\ collector = createCollector(SourcesConfig(AllEnabled, 1), FALSE)
  /\ passes = 0
  /\ collectionResult = EmptyAcc
  /\ disabledSourceIds = <<>>
  /\ report = NoReport
  /\ runResult = "none"
CollectIdle ==
  /\ tier = 0 /\ chunks = <<>> /\ current = <<>> /\ inflight = {}
  /\ results = EmptyMap /\ tierAcc = EmptyAcc /\ acc = EmptyAcc
  /\ attempts = [id \in SourceIds |-> 0] /\ outcomes = EmptyMap
AbortIdle == abortErrors = <<>> /\ abortIds = <<>>
NoReturn == [thrown |-> FALSE, changes |-> 0]
NoTxn == [state |-> "none", work |-> {}, pending |-> <<>>]
StoreIdle == storeOp = "idle" /\ storeArg = <<>> /\ storeRet = NoReturn /\ txn = NoTxn

MaxProcs == 3
Procs == 1..MaxProcs
NoCall == [fn |-> "none", args |-> <<>>, ret |-> Null]
(* no invocation started, no lock directory *)
ShIdle == [lockDir |-> FALSE, pidFile |-> Null,
           pc |-> [p \in Procs |-> "new"], oldPid |-> [p \in Procs |-> Null]]
AuxIdle == call = NoCall /\ sh = ShIdle

(***************************************************************************)
(* Deduplication runs over one history store                               *)
(***************************************************************************)
InitDedup == DedupIdle /\ RunIdle /\ CollectIdle /\ AbortIdle /\ StoreIdle /\ AuxIdle

(* createDeduplicator(options).deduplicate(articles, dateMethod) *)
Deduplicate(articles, lastSuccessAt) ==
  /\ op = "idle"
  /\ \E r \in {deduplicate(store, DedupOptions(lastSuccessAt), articles,
                            SampleDateMethodMap, now, tz)} :
        /\ store' = r.store
        /\ dedupResult' = [articles |-> r.articles, stats |-> r.stats]
  /\ batch' = articles
  /\ op' = "deduplicate"
  /\ UNCHANGED <<now, tz, runVars, collectVars, abortVars, storeVars, auxVars>>

(* the caller has consumed the result; the Deduplicator is closed *)
Close ==
  /\ op = "deduplicate"
  /\ op' = "idle"
  /\ batch' = <<>>
  /\ dedupResult' = NoResult
  /\ UNCHANGED <<store, now, tz, runVars, collectVars, abortVars, storeVars, auxVars>>

(* Deduplicator.cleanup() with the configured retention *)
Cleanup(retentionDays) ==
  /\ op = "idle"
  /\ store' = cleanup(store, calculateCutoffDate(now, retentionDays))
  /\ UNCHANGED <<now, tz, op, batch, dedupResult, runVars, collectVars, abortVars, storeVars, auxVars>>

Tick ==
  /\ op = "idle"
  /\ now < StartNow + MaxTicks * TickHours
  /\ now' = now + TickHours
  /\ UNCHANGED <<store, tz, op, batch, dedupResult, runVars, collectVars, abortVars, storeVars, auxVars>>

NextDedup ==
  \/ \E articles \in Batches, lastSuccessAt \in {Null, StartNow} :
        Deduplicate(articles, lastSuccessAt)
  \/ Close
  \/ \E retentionDays \in RetentionChoices : Cleanup(retentionDays)
  \/ Tick

SpecDedup == InitDedup /\ [][NextDedup]_vars

(***************************************************************************)
(* Collector.collectAll as a process: the tasks of a chunk are started     *)
(* together, settle one by one in any order, and the loop over the results *)
(* runs when the await of the chunk ends.                                  *)
(***************************************************************************)
SourceOf(sourcesConfig, id) ==
  LET hit == SelectSeq(sourcesConfig.sources, LAMBDA src : src.id = id) IN hit[1]

IdsOf(chunk) == {chunk[i].id : i \in DOMAIN chunk}

FetchOk == [success |-> TRUE, error |-> NoError]
FetchFailed(error) == [success |-> FALSE, error |-> error]
ErrAbort(id) == CollectionError(id, "timeout", MsgClaudeAborted, 1)
ErrAbortFirstTry(id) == CollectionError(id, "timeout", MsgClaudeAborted, 0)
ErrTimeout(id) == CollectionError(id, "timeout", MsgTimeout, 2)
Parsed(n) == [n |-> n, parseError |-> FALSE]
ParseFailed(n) == [n |-> n, parseError |-> TRUE]
Io(throws, fetch, parse, repairFetch, repairParse) ==
  [throws |-> throws, fetch |-> fetch, parse |-> parse,
   repairFetch |-> repairFetch, repairParse |-> repairParse]
IoOk(n) == Io(FALSE, FetchOk, Parsed(n), FetchOk, Parsed(n))

(* what may happen during a call of collectFromSource(source) *)
IoChoices(source) ==
  LET all == Len(SourceArticles(source.id))
  IN {Io(TRUE, FetchOk, Parsed(all), FetchOk, Parsed(all))}
     \cup {Io(FALSE, FetchFailed(e), Parsed(all), FetchOk, Parsed(all)) :
             e \in {ErrAbort(source.id), ErrTimeout(source.id)}}
     \cup {IoOk(n) : n \in {0, all}}
     \cup {Io(FALSE, FetchOk, ParseFailed(n), rf, rp) :
             n \in {0, all},
             rf \in (IF RepairEligible(source)
                     THEN {FetchOk, FetchFailed(ErrTimeout(source.id))} ELSE {FetchOk}),
             rp \in (IF RepairEligible(source)
                     THEN {Parsed(all), ParseFailed(0)} ELSE {Parsed(all)})}

(* the outcomes followed through a whole run() *)
RunIoChoices(source) ==
  LET all == Len(SourceArticles(source.id))
  IN {IoOk(all)}
     \cup {Io(FALSE, FetchFailed(e), Parsed(all), FetchOk, Parsed(all)) :
             e \in {ErrAbort(source.id), ErrAbortFirstTry(source.id)}}

(* entry of collectAll on collector c *)
BeginCollect(c) ==
  /\ tier' = 1
  /\ chunks' = chunkArray(TierSources(c.sourcesConfig, 1), c.maxConcurrency)
  /\ current' = <<>>
  /\ inflight' = {}
  /\ results' = EmptyMap
  /\ tierAcc' = EmptyAcc
  /\ acc' = EmptyAcc
  /\ attempts' = [id \in SourceIds |-> 0]
  /\ outcomes' = EmptyMap

(* chunk.map((source) => this.collectFromSource(source)) *)
StartChunk ==
  /\ tier \in 1..3
  /\ current = <<>>
  /\ chunks # <<>>
  /\ current' = Head(chunks)
  /\ chunks' = Tail(chunks)
  /\ inflight' = inflight \cup IdsOf(Head(chunks))
  /\ attempts' = [id \in SourceIds |->
                    attempts[id] + Len(SelectSeq(Head(chunks), LAMBDA src : src.id = id))]
  /\ results' = EmptyMap
  /\ UNCHANGED <<tier, tierAcc, acc, outcomes, dedupVars, runVars, abortVars, storeVars, auxVars>>

(* one collectFromSource promise settles *)
Settle(id, io) ==
  LET r == collectFromSource(SourceOf(collector.sourcesConfig, id), collector.dryRun, io)
  IN /\ id \in inflight
     /\ inflight' = inflight \ {id}
     /\ results' = (id :> r) @@ results
     /\ outcomes' = (id :> r) @@ outcomes
     /\ UNCHANGED <<tier, chunks, current, tierAcc, acc, attempts,
                    dedupVars, runVars, abortVars, storeVars, auxVars>>

(* the await of the chunk ends; for (let i = 0; i < results.length; i++) *)
JoinChunk ==
  /\ tier \in 1..3
  /\ current # <<>>
  /\ AllSettled(current, results)
  /\ tierAcc' = ProcessResults(current, ChunkIndexes(current), results, tierAcc)
  /\ current' = <<>>
  /\ results' = EmptyMap
  /\ UNCHANGED <<tier, chunks, inflight, acc, attempts, outcomes,
                 dedupVars, runVars, abortVars, storeVars, auxVars>>

(* collectSources returns; collectAll merges and goes to the next tier *)
TierReturn ==
  /\ tier \in 1..3
  /\ current = <<>>
  /\ chunks = <<>>
  /\ acc' = MergeTier(acc, tierAcc)
  /\ tierAcc' = EmptyAcc
  /\ tier' = tier + 1
  /\ chunks' = IF tier < 3
               THEN chunkArray(TierSources(collector.sourcesConfig, tier + 1),
                               collector.maxConcurrency)
               ELSE <<>>
  /\ UNCHANGED <<current, inflight, results, attempts, outcomes,
                 dedupVars, runVars, abortVars, storeVars, auxVars>>

(* a caller other than run() receives the CollectionResult *)
CollectAllReturn ==
  /\ pc = "collectAll"
  /\ tier = 4
  /\ pc' = "returned"
  /\ collectionResult' = acc
  /\ UNCHANGED <<options, configOk, sourcesFile, lastSuccessFile, configs, collector,
                 passes, disabledSourceIds, report, runResult,
                 dedupVars, collectVars, abortVars, storeVars, auxVars>>

DisableOne(id) == [x \in SourceIds |-> x # id]
CollectEnabledChoices == {AllEnabled, DisableOne("qiita"), DisableOne("hackernews")}

InitCollect ==
  /\ DedupIdle /\ AbortIdle /\ StoreIdle /\ AuxIdle
  /\ pc = "collectAll"
  /\ options = [dryRun |-> FALSE, autoDisableUnstableSources |-> TRUE,
                rerunAfterDisable |-> TRUE]
  /\ configOk = TRUE
  /\ \E enabled \in CollectEnabledChoices, m \in 1..MaxConcurrency :
        sourcesFile = SourcesConfig(enabled, m)
  /\ lastSuccessFile = Null
  /\ configs = loadAllConfigs(sourcesFile, lastSuccessFile)
  /\ \E dryRun \in BOOLEAN : collector = createCollector(configs.sources, dryRun)
  /\ passes = 0
  /\ collectionResult = EmptyAcc
  /\ disabledSourceIds = <<>>
  /\ report = NoReport
  /\ runResult = "none"
  /\ tier = 1
  /\ chunks = chunkArray(TierSources(collector.sourcesConfig, 1), collector.maxConcurrency)
  /\ current = <<>> /\ inflight = {}
  /\ results = EmptyMap /\ tierAcc = EmptyAcc /\ acc = EmptyAcc
  /\ attempts = [id \in SourceIds |-> 0] /\ outcomes = EmptyMap

NextCollect ==
  \/ StartChunk
  \/ \E id \in SourceIds :
       \E io \in IoChoices(SourceOf(collector.sourcesConfig, id)) : Settle(id, io)
  \/ JoinChunk
  \/ TierReturn
  \/ CollectAllReturn

SpecCollect == InitCollect /\ [][NextCollect]_vars

(***************************************************************************)
(* run() of index.ts, one step per call it awaits or file it touches       *)
(***************************************************************************)
RunEnabledChoices == {AllEnabled, DisableOne("twitter")}

InitRun ==
  /\ DedupIdle /\ CollectIdle /\ AbortIdle /\ StoreIdle /\ AuxIdle
  /\ pc = "start"
  /\ options \in [dryRun : BOOLEAN, autoDisableUnstableSources : BOOLEAN,
                  rerunAfterDisable : BOOLEAN]
  /\ configOk \in BOOLEAN
  /\ \E enabled \in RunEnabledChoices, m \in 1..MaxConcurrency :
        sourcesFile = SourcesConfig(enabled, m)
  /\ lastSuccessFile = Null
  /\ configs = loadAllConfigs(SourcesConfig(AllEnabled, 1), Null)
  /\ collector = createCollector(SourcesConfig(AllEnabled, 1), FALSE)
  /\ passes = 0
  /\ collectionResult = EmptyAcc
  /\ disabledSourceIds = <<>>
  /\ report = NoReport
  /\ runResult = "none"

(* mutant: run() does not return after printing the tasks of a dry-run *)
RunStart_noDryRunReturn ==
  LET cfg == loadAllConfigs(sourcesFile, lastSuccessFile)
      c == createCollector(cfg.sources, options.dryRun)
  IN /\ pc = "start"
     /\ IF ~configOk
        THEN /\ pc' = "done"
             /\ runResult' = "failed"
             /\ UNCHANGED <<configs, collector, passes, collectVars>>
        ELSE /\ pc' = "collect"
             /\ configs' = cfg
             /\ collector' = c
             /\ passes' = passes + 1
             /\ BeginCollect(c)
             /\ UNCHANGED runResult
     /\ UNCHANGED <<options, configOk, sourcesFile, lastSuccessFile, collectionResult,
                    disabledSourceIds, report, dedupVars, abortVars, storeVars, auxVars>>

(* validateConfigFiles ... the first collector.collectAll() *)
RunStart ==
  LET cfg == loadAllConfigs(sourcesFile, lastSuccessFile)
      c == createCollector(cfg.sources, options.dryRun)
  IN /\ pc = "start"
     /\ IF ~configOk
        THEN /\ pc' = "done"
             /\ runResult' = "failed"
             /\ UNCHANGED <<configs, collector, passes, collectVars, auxVars>>
        ELSE IF options.dryRun
        THEN /\ pc' = "done"
             /\ runResult' = "success"
             /\ configs' = cfg
             /\ collector' = c
             /\ UNCHANGED <<passes, collectVars, auxVars>>
        ELSE /\ pc' = "collect"
             /\ configs' = cfg
             /\ collector' = c
             /\ passes' = passes + 1
             /\ BeginCollect(c)
             /\ UNCHANGED runResult
     /\ UNCHANGED <<options, configOk, sourcesFile, lastSuccessFile, collectionResult,
                    disabledSourceIds, report, dedupVars, abortVars, storeVars, auxVars>>

(* collectionResult = await collector.collectAll() *)
RunCollected ==
  /\ pc = "collect"
  /\ tier = 4
  /\ collectionResult' = acc
  /\ pc' = AfterCollect(passes)
  /\ UNCHANGED <<options, configOk, sourcesFile, lastSuccessFile, configs, collector,
                 passes, disabledSourceIds, report, runResult,
                 dedupVars, collectVars, abortVars, storeVars, auxVars>>

(* if (autoDisableUnstableSources) { ... } *)
RunAutoDisable ==
  LET unstableSourceIds ==
        IF options.autoDisableUnstableSources
        THEN findAbortHeavySourceIds(collectionResult.errors) ELSE <<>>
      d == disableSources(unstableSourceIds, sourcesFile)
      cfg == loadAllConfigs(d.file, lastSuccessFile)
      c == createCollector(cfg.sources, FALSE)
  IN /\ pc = "autoDisable"
     /\ IF unstableSourceIds = <<>>
        THEN /\ pc' = "dedup"
             /\ UNCHANGED <<sourcesFile, disabledSourceIds, configs, collector, passes,
                            collectVars, auxVars>>
        ELSE /\ sourcesFile' = d.file
             /\ disabledSourceIds' = d.disabled
             /\ IF ShouldRerun(options, d.disabled)
                THEN /\ configs' = cfg
                     /\ collector' = c
                     /\ passes' = passes + 1
                     /\ BeginCollect(c)
                     /\ pc' = "collect"
                ELSE /\ pc' = "dedup"
                     /\ UNCHANGED <<configs, collector, passes, collectVars, auxVars>>
     /\ UNCHANGED <<options, configOk, lastSuccessFile, collectionResult, report,
                    runResult, dedupVars, abortVars, storeVars, auxVars>>

(* createDeduplicator(dedupOptions); await deduplicator.deduplicate(...),  *)
(* which may throw (the history database cannot be opened or written);    *)
(* the history is written by the last statement, inside a transaction     *)
RunDedup(fails) ==
  LET r == deduplicate(store, DedupOptions(configs.lastSuccessAt),
                       collectionResult.articles, DateMethodMapOf(configs.sources),
                       now, tz)
  IN /\ pc = "dedup"
     /\ IF fails
        THEN /\ pc' = "done"
             /\ runResult' = "thrown"
             /\ UNCHANGED <<store, dedupResult, batch, op>>
        ELSE /\ store' = r.store
             /\ dedupResult' = [articles |-> r.articles, stats |-> r.stats]
             /\ batch' = collectionResult.articles
             /\ op' = "deduplicate"
             /\ pc' = "report"
             /\ UNCHANGED runResult
     /\ UNCHANGED <<now, tz, options, configOk, sourcesFile, lastSuccessFile, configs,
                    collector, passes, collectionResult, disabledSourceIds, report,
                    collectVars, abortVars, storeVars, auxVars>>

(* mutant: the success time is written before the report is saved *)
RunReport_saveFirst(fails) ==
  /\ pc = "report"
  /\ lastSuccessFile' = now
  /\ IF fails
     THEN pc' = "done" /\ runResult' = "thrown" /\ UNCHANGED report
     ELSE /\ pc' = "saveSuccess"
          /\ report' = [saved |-> TRUE, articles |-> dedupResult.articles,
                        collection |-> collectionResult]
          /\ UNCHANGED runResult
  /\ UNCHANGED <<options, configOk, sourcesFile, configs, collector,
                 passes, collectionResult, disabledSourceIds,
                 dedupVars, collectVars, abortVars, storeVars, auxVars>>

(* generateSimpleReport(...); await saveReport(...), which may throw *)
RunReport(fails) ==
  /\ pc = "report"
  /\ IF fails
     THEN pc' = "done" /\ runResult' = "thrown" /\ UNCHANGED report
     ELSE /\ pc' = "saveSuccess"
          /\ report' = [saved |-> TRUE, articles |-> dedupResult.articles,
                        collection |-> collectionResult]
          /\ UNCHANGED runResult
  /\ UNCHANGED <<options, configOk, sourcesFile, lastSuccessFile, configs, collector,
                 passes, collectionResult, disabledSourceIds,
                 dedupVars, collectVars, abortVars, storeVars, auxVars>>

(* saveLastSuccessAt(new Date().toISOString()) *)
RunSaveLastSuccess ==
  /\ pc = "saveSuccess"
  /\ lastSuccessFile' = now
  /\ pc' = "cleanup"
  /\ UNCHANGED <<options, configOk, sourcesFile, configs, collector, passes,
                 collectionResult, disabledSourceIds, report, runResult,
                 dedupVars, collectVars, abortVars, storeVars, auxVars>>

(* deduplicator.cleanup() *)
RunCleanup ==
  /\ pc = "cleanup"
  /\ store' = cleanup(store, calculateCutoffDate(now, DefaultRetentionDays))
  /\ pc' = "close"
  /\ UNCHANGED <<now, tz, op, batch, dedupResult, options, configOk, sourcesFile,
                 lastSuccessFile, configs, collector, passes, collectionResult,
                 disabledSourceIds, report, runResult, collectVars, abortVars, storeVars, auxVars>>

(* mutant: a run whose collection reported errors does not succeed *)
RunClose_failOnErrors ==
  /\ pc = "close"
  /\ pc' = "done"
  /\ runResult' = IF collectionResult.errors = <<>> THEN "success" ELSE "failed"
  /\ UNCHANGED <<options, configOk, sourcesFile, lastSuccessFile, configs, collector,
                 passes, collectionResult, disabledSourceIds, report,
                 dedupVars, collectVars, abortVars, storeVars, auxVars>>

(* deduplicator.close(); return { success: true, ... } *)
RunClose ==
  /\ pc = "close"
  /\ pc' = "done"
  /\ runResult' = "success"
  /\ UNCHANGED <<options, configOk, sourcesFile, lastSuccessFile, configs, collector,
                 passes, collectionResult, disabledSourceIds, report,
                 dedupVars, collectVars, abortVars, storeVars, auxVars>>

NextRun ==
  \/ RunStart
  \/ StartChunk
  \/ \E id \in SourceIds :
       \E io \in RunIoChoices(SourceOf(collector.sourcesConfig, id)) : Settle(id, io)
  \/ JoinChunk
  \/ TierReturn
  \/ RunCollected
  \/ RunAutoDisable
  \/ \E fails \in BOOLEAN : RunDedup(fails)
  \/ \E fails \in BOOLEAN : RunReport(fails)
  \/ RunSaveLastSuccess
  \/ RunCleanup
  \/ RunClose

SpecRun == InitRun /\ [][NextRun]_vars

(***************************************************************************)
(* Calls of findAbortHeavySourceIds on lists of collection errors          *)
(***************************************************************************)
AbortErrorSamples ==
  {CollectionError(id, "timeout", m, n) :
     id \in {"qiita", "zenn"}, m \in SampleMessages, n \in {0, 1, 3}}

RECURSIVE SeqsUpTo(_, _)
SeqsUpTo(S, n) ==
  IF n = 0 THEN {<<>>}
  ELSE SeqsUpTo(S, n - 1)
         \cup {Append(q, x) : q \in {q2 \in SeqsUpTo(S, n - 1) : Len(q2) = n - 1}, x \in S}

InitAbort ==
  /\ DedupIdle /\ CollectIdle /\ StoreIdle /\ AuxIdle
  /\ pc = "findAbortHeavySourceIds"
  /\ options = [dryRun |-> FALSE, autoDisableUnstableSources |-> TRUE,
                rerunAfterDisable |-> TRUE]
  /\ configOk = TRUE
  /\ sourcesFile = SourcesConfig(AllEnabled, 1)
  /\ lastSuccessFile = Null
  /\ configs = loadAllConfigs(SourcesConfig(AllEnabled, 1), Null)
  /\ collector = createCollector(SourcesConfig(AllEnabled, 1), FALSE)
  /\ passes = 0
  /\ collectionResult = EmptyAcc
  /\ disabledSourceIds = <<>>
  /\ report = NoReport
  /\ runResult = "none"
  /\ abortErrors \in SeqsUpTo(AbortErrorSamples, MaxErrors)
  /\ abortIds = <<>>

FindAbortHeavy ==
  /\ pc = "findAbortHeavySourceIds"
  /\ abortIds' = findAbortHeavySourceIds(abortErrors)
  /\ pc' = "abortReturned"
  /\ UNCHANGED <<abortErrors, options, configOk, sourcesFile, lastSuccessFile, configs,
                 collector, passes, collectionResult, disabledSourceIds, report,
                 runResult, dedupVars, collectVars, storeVars, auxVars>>

NextAbort == FindAbortHeavy

SpecAbort == InitAbort /\ [][NextAbort]_vars

(***************************************************************************)
(* Calls of the HistoryStore methods on one database                       *)
(***************************************************************************)
MetaNone == [publishedAt |-> Null, dateConfidence |-> NullText,
             titleHash |-> Null, contentHash |-> Null]
MetaA == [publishedAt |-> 1, dateConfidence |-> "high", titleHash |-> 11, contentHash |-> 33]
MetaB == [publishedAt |-> 2, dateConfidence |-> "low", titleHash |-> 22, contentHash |-> 44]
MetaRejected == [publishedAt |-> Null, dateConfidence |-> "certain",
                 titleHash |-> Null, contentHash |-> Null]

StoreUrls == {"https://a.test/1", "https://b.test/2"}

HistoryEntry(u, first, last, meta) ==
  [url |-> u, normalizedUrl |-> u, title |-> <<"t">>, firstSeenAt |-> first,
   lastSeenAt |-> last, publishedAt |-> meta.publishedAt,
   dateConfidence |-> meta.dateConfidence, source |-> "qiita",
   titleHash |-> meta.titleHash, contentHash |-> meta.contentHash]

(* the entries handed to upsert: firstSeenAt <= lastSeenAt in each *)
StoreEntries ==
  {HistoryEntry(u, first, last, meta) :
     u \in StoreUrls,
     first \in 1..MaxStoreTime, last \in 1..MaxStoreTime,
     meta \in {MetaNone, MetaA, MetaB, MetaRejected}}
  \ {e \in {HistoryEntry(u, first, last, meta) :
              u \in StoreUrls,
              first \in 1..MaxStoreTime, last \in 1..MaxStoreTime,
              meta \in {MetaNone, MetaA, MetaB, MetaRejected}} : e.firstSeenAt > e.lastSeenAt}

(* the batches handed to bulkUpsert, some repeating a normalizedUrl *)
BulkEntries ==
  {e \in StoreEntries : e.firstSeenAt = e.lastSeenAt /\ e.dateConfidence # "low"}
BulkBatches == {<<e>> : e \in BulkEntries} \cup {<<e1, e2>> : e1 \in BulkEntries, e2 \in BulkEntries}

InitStore ==
  /\ DedupIdle /\ RunIdle /\ CollectIdle /\ AbortIdle /\ StoreIdle /\ AuxIdle

Upsert(entry) ==
  /\ storeOp = "idle"
  /\ storeOp' = "upsert"
  /\ storeArg' = <<entry>>
  /\ IF upsertThrows(entry)
     THEN store' = store /\ storeRet' = [thrown |-> TRUE, changes |-> 0]
     ELSE store' = upsert(store, entry) /\ storeRet' = [thrown |-> FALSE, changes |-> 1]
  /\ UNCHANGED <<now, tz, op, batch, dedupResult, txn, runVars, collectVars, abortVars, auxVars>>

(* the transaction of bulkUpsert as a whole: committed, or rolled back *)
BulkUpsert(entries) ==
  /\ storeOp = "idle"
  /\ storeOp' = "bulkUpsert"
  /\ storeArg' = entries
  /\ IF \E i \in DOMAIN entries : upsertThrows(entries[i])
     THEN store' = store /\ storeRet' = [thrown |-> TRUE, changes |-> 0]
     ELSE /\ store' = bulkUpsert(store, entries)
          /\ storeRet' = [thrown |-> FALSE, changes |-> Len(entries)]
  /\ UNCHANGED <<now, tz, op, batch, dedupResult, txn, runVars, collectVars, abortVars, auxVars>>

StoreCleanup(beforeDate) ==
  /\ storeOp = "idle"
  /\ storeOp' = "cleanup"
  /\ storeArg' = <<beforeDate>>
  /\ store' = cleanup(store, beforeDate)
  /\ storeRet' = [thrown |-> FALSE, changes |-> cleanupChanges(store, beforeDate)]
  /\ UNCHANGED <<now, tz, op, batch, dedupResult, txn, runVars, collectVars, abortVars, auxVars>>

StoreReturn ==
  /\ storeOp \in {"upsert", "bulkUpsert", "cleanup"}
  /\ storeOp' = "idle"
  /\ storeArg' = <<>>
  /\ storeRet' = NoReturn
  /\ UNCHANGED <<dedupVars, txn, runVars, collectVars, abortVars, auxVars>>

NextStore ==
  \/ \E entry \in StoreEntries : Upsert(entry)
  \/ \E entries \in BulkBatches : BulkUpsert(entries)
  \/ \E beforeDate \in 1..(MaxStoreTime + 1) : StoreCleanup(beforeDate)
  \/ StoreReturn

SpecStore == InitStore /\ [][NextStore]_vars

(***************************************************************************)
(* bulkUpsert statement by statement: BEGIN, one upsert per entry, COMMIT, *)
(* or ROLLBACK when an upsert throws.  `store` is the database as readers  *)
(* see it, txn.work the rows as the open transaction sees them.            *)
(***************************************************************************)
TxnBegin(entries) ==
  /\ storeOp = "idle"
  /\ storeOp' = "transaction"
  /\ storeArg' = entries
  /\ storeRet' = NoReturn
  /\ txn' = [state |-> "open", work |-> store, pending |-> entries]
  /\ UNCHANGED <<dedupVars, runVars, collectVars, abortVars, auxVars>>

TxnUpsert ==
  /\ storeOp = "transaction"
  /\ txn.pending # <<>>
  /\ IF upsertThrows(Head(txn.pending))
     THEN /\ txn' = NoTxn
          /\ store' = transaction(store, txn.work)
          /\ storeOp' = "bulkUpsert"
          /\ storeRet' = [thrown |-> TRUE, changes |-> 0]
     ELSE /\ txn' = [txn EXCEPT !.work = upsert(@, Head(txn.pending)),
                                !.pending = Tail(@)]
          /\ store' = transaction(store, txn'.work)
          /\ UNCHANGED <<storeOp, storeRet>>
  /\ UNCHANGED <<now, tz, op, batch, dedupResult, storeArg, runVars, collectVars, abortVars, auxVars>>

TxnCommit ==
  /\ storeOp = "transaction"
  /\ txn.pending = <<>>
  /\ store' = txn.work
  /\ txn' = NoTxn
  /\ storeOp' = "bulkUpsert"
  /\ storeRet' = [thrown |-> FALSE, changes |-> Len(storeArg)]
  /\ UNCHANGED <<now, tz, op, batch, dedupResult, storeArg, runVars, collectVars, abortVars, auxVars>>

NextTxn ==
  \/ \E entries \in BulkBatches : TxnBegin(entries)
  \/ TxnUpsert
  \/ TxnCommit
  \/ StoreReturn

SpecTxn == InitStore /\ [][NextTxn]_vars

(***************************************************************************)
(* Properties of the deduplication runs                                    *)
(***************************************************************************)
StoredUrls(s) == {r.normalizedUrl : r \in s}
OutputUrls(result) == {result.articles[i].normalizedUrl : i \in DOMAIN result.articles}
BatchUrls(b) == {NormalizedUrlOf(b[i], RunUrlNormalization) : i \in DOMAIN b}

(* C1: cross-run history exclusion.  Every article a deduplicate call     *)
(* emits is written to history by that call, and a deduplicate call never *)
(* emits an article whose normalizedUrl was in history when the call      *)
(* started, nor adds a second history entry for such a url.  Together: an *)
(* article emitted once is not emitted again, and gets no new entry, as   *)
(* long as its entry stays in history.                                    *)
C1_HistoryExclusion ==
  [][op' = "deduplicate" =>
       /\ OutputUrls(dedupResult') \subseteq StoredUrls(store')
       /\ OutputUrls(dedupResult') \cap StoredUrls(store) = {}
       /\ \A r \in store :
            Cardinality(findByNormalizedUrl(store', r.normalizedUrl)) = 1]_vars

(* a batch re-sights, under another spelling of the URL, an article that  *)
(* an earlier run stored, and the call leaves it out                      *)
C1_Witness ==
  /\ op = "deduplicate"
  /\ \E r \in store : \E i \in DOMAIN batch :
        /\ r.firstSeenAt < now
        /\ batch[i].url # r.url
        /\ NormalizedUrlOf(batch[i], RunUrlNormalization) = r.normalizedUrl
        /\ r.normalizedUrl \notin OutputUrls(dedupResult)

(* C2: re-sighting update.  When the batch of a deduplicate call contains *)
(* an article whose normalizedUrl is already in history, the article is   *)
(* left out of the output and the existing entry keeps its firstSeenAt    *)
(* while its lastSeenAt becomes the time of the call.                     *)
C2_ResightingAdvancesLastSeen ==
  [][op' = "deduplicate" =>
       \A r \in store :
          r.normalizedUrl \in BatchUrls(batch') =>
            /\ r.normalizedUrl \notin OutputUrls(dedupResult')
            /\ \E r2 \in store' :
                 /\ r2.normalizedUrl = r.normalizedUrl
                 /\ r2.firstSeenAt = r.firstSeenAt
                 /\ r2.lastSeenAt = now]_vars

(***************************************************************************)
(* Properties of Collector.collectAll                                      *)
(***************************************************************************)
TierOf(id) == SourceOf(collector.sourcesConfig, id).tier
EnabledIds == IdsOf(EnabledSources(collector.sourcesConfig))
Started(id) == attempts[id] > 0
Settled(id) == id \in DOMAIN outcomes

(* C3: tasks of two tiers are never in flight together, and a task of a   *)
(* tier has started only if every task of the lower tiers has settled.    *)
C3_TierSerialisation ==
  /\ \A a \in inflight, b \in inflight : TierOf(a) = TierOf(b)
  /\ \A id \in SourceIds :
       Started(id) =>
         \A other \in EnabledIds : TierOf(other) < TierOf(id) => Settled(other)

C3_Witness ==
  /\ collector.maxConcurrency >= 2
  /\ "twitter" \in inflight
  /\ \E id \in EnabledIds : TierOf(id) = 2 /\ Settled(id)
  /\ Cardinality({id \in EnabledIds : TierOf(id) = 1 /\ Settled(id)}) >= 2

C5_FailureIsolation ==
  /\ \A id \in SourceIds : attempts[id] <= 1
  /\ pc = "returned" =>
       /\ inflight = {}
       /\ \A id \in EnabledIds : attempts[id] = 1 /\ Settled(id)
       /\ DOMAIN collectionResult.status = EnabledIds
       /\ \A id \in SourceIds \ EnabledIds : attempts[id] = 0

C5_Witness ==
  /\ pc = "returned"
  /\ EnabledIds = SourceIds
  /\ collector.maxConcurrency >= 2
  /\ outcomes["hackernews"].status = "rejected"
  /\ outcomes["anthropic_blog"].error # NoError
  /\ collectionResult.status["qiita"] = "success"
  /\ collectionResult.status["twitter"] = "success"

TierArticles(t) ==
  LET srcs == TierSources(collector.sourcesConfig, t)
  IN Flatten([i \in DOMAIN srcs |-> outcomes[srcs[i].id].articles])

(* C6: the returned articles are those of tier 1, then tier 2, then tier  *)
(* 3, inside a tier in the order of the sources in the configuration.     *)
C6_OutputOrder ==
  pc = "returned" =>
    collectionResult.articles = TierArticles(1) \o TierArticles(2) \o TierArticles(3)

C6_Witness ==
  /\ pc = "returned"
  /\ collector.maxConcurrency >= 2
  /\ collectionResult.articles = <<ArtA, ArtB, ArtD, ArtATracked, ArtBad>>

(* C7: a source's status is success iff it gave articles without error,   *)
(* partial iff it gave at least one article with an error, and failed     *)
(* whenever it gave no article.                                           *)
C7_StatusRule ==
  (pc = "returned" /\ ~collector.dryRun) =>
    \A id \in DOMAIN collectionResult.status :
      LET r == outcomes[id]
          some == Len(r.articles) > 0
          err == r.status = "rejected" \/ r.error # NoError
          st == collectionResult.status[id]
      IN /\ st = "success" <=> (some /\ ~err)
         /\ st = "partial" <=> (some /\ err)
         /\ ~some => st = "failed"

(***************************************************************************)
(* Properties of run() and of findAbortHeavySourceIds                      *)
(***************************************************************************)
AbortPhrases == {AbortedByUser, ProcessAborted, OperationAborted}

(* phrase p stands in message s at offset k, letter case aside *)
PhraseAt(s, p, k) ==
  /\ k + Len(p) - 1 <= Len(s)
  /\ \A j \in 1..Len(p) : ToLowerChar(s[k + j - 1]) = p[j]

IsAbortHeavy(e) ==
  /\ e.retryCount >= 1
  /\ \E p \in AbortPhrases : \E k \in 1..Len(e.message) : PhraseAt(e.message, p, k)

AbortHeavyIds(errors) == {e.sourceId : e \in {x \in Range(errors) : IsAbortHeavy(x)}}

EnabledIn(file, id) == SourceOf(file, id).enabled

AfterCollection == pc \in {"dedup", "report", "saveSuccess", "cleanup", "close", "done"}

(* C8: one run() calls collectAll at most twice; the second call needs    *)
(* both options and a disabled source; what the second collection finds   *)
(* abort-heavy is neither disabled nor collected again.                   *)
C8_RerunAtMostOnce ==
  /\ passes <= 2
  /\ passes = 2 =>
       /\ options.autoDisableUnstableSources
       /\ options.rerunAfterDisable
       /\ disabledSourceIds # <<>>
       /\ sourcesFile = collector.sourcesConfig
  /\ (passes = 2 /\ AfterCollection) =>
       \A id \in AbortHeavyIds(collectionResult.errors) : EnabledIn(sourcesFile, id)

C8_Witness ==
  /\ passes = 2
  /\ pc = "done"
  /\ runResult = "success"
  /\ AbortHeavyIds(collectionResult.errors) # {}

SecondCollection ==
  /\ \A id \in Range(disabledSourceIds) : ~EnabledIn(sourcesFile, id)
  /\ \A id \in SourceIds : ~EnabledIn(sourcesFile, id) => attempts[id] = 0
  /\ AfterCollection =>
       /\ collectionResult = acc
       /\ DOMAIN collectionResult.status \cap Range(disabledSourceIds) = {}
       /\ \A i \in DOMAIN collectionResult.errors :
            collectionResult.errors[i].sourceId \notin Range(disabledSourceIds)
  /\ pc \in {"report", "saveSuccess", "cleanup", "close"} => batch = acc.articles
  /\ report.saved => report.collection = acc

(* C9: the re-run step leaves every abort-heavy source of the first       *)
(* collection disabled in the sources file; from then on no disabled      *)
(* source is fetched, and deduplication and report receive the result of  *)
(* the second collection.                                                 *)
C9_RerunReplacesFirstCollection ==
  [][/\ (pc = "autoDisable" /\ passes' = 2) =>
          /\ AbortHeavyIds(collectionResult.errors) # {}
          /\ \A id \in AbortHeavyIds(collectionResult.errors) :
               /\ ~EnabledIn(sourcesFile', id)
               /\ id \in Range(disabledSourceIds')
     /\ passes' = 2 => SecondCollection']_vars

C9_Witness ==
  /\ passes = 2
  /\ report.saved
  /\ Len(disabledSourceIds) = 2
  /\ Len(report.collection.articles) > 0
  /\ \E id \in DOMAIN report.collection.status : report.collection.status[id] = "partial"

(* C10: findAbortHeavySourceIds returns, each once, the ids of the        *)
(* sources with an error of retryCount >= 1 whose message contains one of *)
(* the three phrases in any letter case, and no other id.                 *)
C10_AbortHeavyExact ==
  pc = "abortReturned" =>
    /\ Range(abortIds) = AbortHeavyIds(abortErrors)
    /\ Len(abortIds) = Cardinality(Range(abortIds))

C10_Witness ==
  /\ pc = "abortReturned"
  /\ Len(abortErrors) = 2
  /\ abortErrors[1].message = MsgOperationAborted
  /\ abortErrors[1].retryCount = 0
  /\ abortErrors[2].message = MsgOperationAborted
  /\ abortErrors[2].retryCount >= 1
  /\ abortErrors[1].sourceId # abortErrors[2].sourceId
  /\ abortIds = <<abortErrors[2].sourceId>>

(***************************************************************************)
(* Properties of the HistoryStore                                          *)
(***************************************************************************)
(* C11: no step of the store changes the firstSeenAt of an entry that     *)
(* stays in the store, whatever firstSeenAt the upserted entries carry.   *)
C11_FirstSeenImmutable ==
  [][\A r \in store : \A r2 \in store' :
       r2.normalizedUrl = r.normalizedUrl => r2.firstSeenAt = r.firstSeenAt]_vars

C11_Witness ==
  /\ storeOp = "upsert"
  /\ ~storeRet.thrown
  /\ \E r \in store :
       /\ r.normalizedUrl = storeArg[1].normalizedUrl
       /\ r.lastSeenAt = storeArg[1].lastSeenAt
       /\ r.firstSeenAt > storeArg[1].firstSeenAt

(* C12: no step of the store moves the lastSeenAt of an entry to an       *)
(* earlier time.                                                          *)
C12_LastSeenMonotonic ==
  [][\A r \in store : \A r2 \in store' :
       r2.normalizedUrl = r.normalizedUrl => r2.lastSeenAt >= r.lastSeenAt]_vars

(* C13: every stored entry has firstSeenAt <= lastSeenAt (every entry     *)
(* handed to the store has).                                              *)
C13_FirstSeenBeforeLastSeen ==
  \A r \in store : r.firstSeenAt <= r.lastSeenAt

(* C14: a step of the store leaves a non-empty publishedAt,               *)
(* dateConfidence, titleHash or contentHash of an entry as it was.        *)
C14_FillOnlyWhenEmpty ==
  [][\A r \in store : \A r2 \in store' :
       r2.normalizedUrl = r.normalizedUrl =>
         /\ r.publishedAt # Null => r2.publishedAt = r.publishedAt
         /\ r.dateConfidence # NullText => r2.dateConfidence = r.dateConfidence
         /\ r.titleHash # Null => r2.titleHash = r.titleHash
         /\ r.contentHash # Null => r2.contentHash = r.contentHash]_vars

(* C15: no two stored entries share a normalizedUrl *)
C15_NormalizedUrlUnique ==
  \A r1 \in store, r2 \in store : r1.normalizedUrl = r2.normalizedUrl => r1 = r2

C15_Witness ==
  /\ storeOp = "bulkUpsert"
  /\ ~storeRet.thrown
  /\ Len(storeArg) = 2
  /\ storeArg[1].normalizedUrl = storeArg[2].normalizedUrl
  /\ storeArg[1] # storeArg[2]
  /\ Cardinality(store) = 2
  /\ \E r \in store : r.normalizedUrl = storeArg[1].normalizedUrl

(* C17: cleanup(before) deletes the entries with firstSeenAt < before,    *)
(* and only those, and returns how many they were.                        *)
C17_CleanupByFirstSeen ==
  [][storeOp' = "cleanup" =>
       /\ store' = {r \in store : r.firstSeenAt >= storeArg'[1]}
       /\ storeRet'.changes =
            Cardinality({r \in store : r.firstSeenAt < storeArg'[1]})]_vars

C17_Witness ==
  /\ storeOp = "cleanup"
  /\ storeRet.changes = 1
  /\ Cardinality(store) = 1
  /\ \E r \in store : r.firstSeenAt = storeArg[1]


(* C16: bulkUpsert is all-or-nothing.  The database its readers see changes *)
(* only in the step that commits, and then to the whole batch applied to    *)
(* the rows before it; a batch with a failing upsert leaves it untouched.   *)
C16_BulkAllOrNothing ==
  [][store' # store =>
       /\ storeOp = "transaction" /\ storeOp' = "bulkUpsert"
       /\ ~storeRet'.thrown
       /\ \A i \in DOMAIN storeArg : ~upsertThrows(storeArg[i])
       /\ store' = bulkUpsert(store, storeArg)]_vars

(* a batch failed on its second entry after its first, a new URL, had been *)
(* written inside the transaction                                          *)
C16_Witness ==
  /\ storeOp = "bulkUpsert"
  /\ storeRet.thrown
  /\ Len(storeArg) = 2
  /\ ~upsertThrows(storeArg[1])
  /\ upsertThrows(storeArg[2])
  /\ storeArg[1].normalizedUrl \notin StoredUrls(store)

(***************************************************************************)
(* Properties of the stages of deduplicate                                 *)
(***************************************************************************)
ArticleKey(a) == [url |-> a.url, title |-> a.title, source |-> a.source]
ArticleKeys(articles) == [i \in DOMAIN articles |-> ArticleKey(articles[i])]

RECURSIVE IsSubsequence(_, _)
IsSubsequence(s, t) ==
  IF s = <<>> THEN TRUE
  ELSE IF t = <<>> THEN FALSE
  ELSE IF Head(s) = Head(t) THEN IsSubsequence(Tail(s), Tail(t))
  ELSE IsSubsequence(s, Tail(t))

(* batch[i] is the first article of the batch with its normalizedUrl *)
EarliestOfUrl(i) ==
  \A j \in 1..(i - 1) :
     NormalizedUrlOf(batch[j], RunUrlNormalization)
       # NormalizedUrlOf(batch[i], RunUrlNormalization)

(* C18: the articles deduplicate returns are a subsequence of the batch it *)
(* was given, and each of them is the earliest article of the batch with   *)
(* its normalizedUrl.                                                      *)
C18_OrderPreserved ==
  op = "deduplicate" =>
    /\ IsSubsequence(ArticleKeys(dedupResult.articles), ArticleKeys(batch))
    /\ \A k \in DOMAIN dedupResult.articles :
          \E i \in DOMAIN batch :
             /\ ArticleKey(batch[i]) = ArticleKey(dedupResult.articles[k])
             /\ EarliestOfUrl(i)

(* two articles of one normalizedUrl came in and the first of them is out *)
C18_Witness ==
  /\ op = "deduplicate"
  /\ Len(batch) = 2
  /\ batch[1].url # batch[2].url
  /\ NormalizedUrlOf(batch[1], RunUrlNormalization)
       = NormalizedUrlOf(batch[2], RunUrlNormalization)
  /\ Len(dedupResult.articles) = 1
  /\ dedupResult.articles[1].url = batch[1].url

(* C19: the counts of the stages never increase along the pipeline, and    *)
(* no more articles are returned than survived the similarity stage.       *)
C19_StageCountsDecrease ==
  op = "deduplicate" =>
    /\ dedupResult.stats.totalInput >= dedupResult.stats.afterUrlDedup
    /\ dedupResult.stats.afterUrlDedup >= dedupResult.stats.afterHistoryDedup
    /\ dedupResult.stats.afterHistoryDedup >= dedupResult.stats.afterSimilarityDedup
    /\ dedupResult.stats.afterSimilarityDedup >= dedupResult.stats.freshArticles
    /\ Len(dedupResult.articles) <= dedupResult.stats.afterSimilarityDedup

(* the similarity stage removed one of two articles the history let by *)
C19_Witness ==
  /\ op = "deduplicate"
  /\ dedupResult.stats.totalInput = 2
  /\ dedupResult.stats.afterHistoryDedup = 2
  /\ dedupResult.stats.afterSimilarityDedup = 1
  /\ dedupResult.stats.freshArticles = 1

(* the articles that survive the similarity stage of a run on `articles` *)
SimilaritySurvivors(s, dedupOptions, articles) ==
  deduplicateBySimilarity(
    deduplicateByHistory(s, deduplicateByUrl(articles, dedupOptions.urlNormalization)),
    dedupOptions.thresholds)

(* C20: an article that survived the similarity stage is returned exactly  *)
(* when its resolved date is not before windowStart or its dateConfidence  *)
(* is unknown; one with a resolved date before windowStart is dropped.     *)
C20_FreshnessFilter ==
  [][op' = "deduplicate" =>
       \A survivors \in {SimilaritySurvivors(store, DedupOptions(Null), batch')} :
          \E lastSuccessAt \in {Null, StartNow} :
             \A windowStart \in {calculateWindowStart(lastSuccessAt, now, tz)} :
                /\ dedupResult'.articles
                     = filterByFreshness(survivors, windowStart, SampleDateMethodMap, now)
                /\ \A a \in Range(survivors) :
                      \A d \in {DateResultOf(a, SampleDateMethodMap, now)} :
                         \A returned \in {\E k \in DOMAIN dedupResult'.articles :
                                             dedupResult'.articles[k].url = a.url} :
                            /\ returned <=> \/ (d.date # Null /\ d.date >= windowStart)
                                            \/ d.confidence = "unknown"
                            /\ (d.date # Null /\ d.date < windowStart) => ~returned]_vars

(* of two survivors of the similarity stage the dated one was dropped and  *)
(* the one of unknown date returned                                        *)
C20_Witness ==
  /\ op = "deduplicate"
  /\ dedupResult.stats.afterSimilarityDedup = 2
  /\ Len(dedupResult.articles) = 1
  /\ dedupResult.articles[1].dateConfidence = "unknown"

(* an article with no publishedAt, no date in its URL and no date hint *)
Undated(a) ==
  /\ a.publishedAt.kind = "absent"
  /\ a.url.date = Null
  /\ a.dateMetaContent.kind = "absent"

(* C21: an article of no resolvable date that reaches the freshness stage  *)
(* is returned, and is returned with dateConfidence unknown,               *)
(* freshnessPriority low and dateSource none.                              *)
C21_UndatedKept ==
  [][op' = "deduplicate" =>
       \A survivors \in {SimilaritySurvivors(store, DedupOptions(Null), batch')} :
          \A a \in Range(survivors) :
             Undated(a) =>
               \E k \in DOMAIN dedupResult'.articles :
                  /\ dedupResult'.articles[k].url = a.url
                  /\ dedupResult'.articles[k].dateConfidence = "unknown"
                  /\ dedupResult'.articles[k].freshnessPriority = "low"
                  /\ dedupResult'.articles[k].dateSource = "none"]_vars

(* what the implementation does return for such an article *)
C21_UndatedKeptFirstSeen ==
  [][op' = "deduplicate" =>
       \A survivors \in {SimilaritySurvivors(store, DedupOptions(Null), batch')} :
          \A a \in Range(survivors) :
             Undated(a) =>
               \E k \in DOMAIN dedupResult'.articles :
                  /\ dedupResult'.articles[k].url = a.url
                  /\ dedupResult'.articles[k].dateConfidence = "unknown"
                  /\ dedupResult'.articles[k].freshnessPriority = "low"
                  /\ dedupResult'.articles[k].dateSource = "first_seen_at"]_vars

(***************************************************************************)
(* Calls of calculateWindowStart at reference times around a Monday, in a  *)
(* process whose local time is UTC or JST                                  *)
(***************************************************************************)
WindowDays == {7, 8, 9}
WindowHoursOfDay == {0, 12, 20}
WindowNows == {d * HoursPerDay + h : d \in WindowDays, h \in WindowHoursOfDay}
WindowAges == {1, DefaultWindowHours, MondayWindowHours - 1, MondayWindowHours,
               MondayWindowHours + 1, MondayWindowHours + DefaultWindowHours}
TimeZones == {0, JST}

InitWindow ==
  /\ DedupIdle /\ RunIdle /\ CollectIdle /\ AbortIdle /\ StoreIdle /\ AuxIdle

CalculateWindowStart(lastSuccessAt, now0, tz0) ==
  /\ call.fn = "none"
  /\ call' = [fn |-> "calculateWindowStart",
              args |-> <<lastSuccessAt, now0, tz0>>,
              ret |-> calculateWindowStart(lastSuccessAt, now0, tz0)]
  /\ UNCHANGED <<dedupVars, runVars, collectVars, abortVars, storeVars, sh>>

CallReturn ==
  /\ call.fn # "none"
  /\ call' = NoCall
  /\ UNCHANGED <<dedupVars, runVars, collectVars, abortVars, storeVars, sh>>

NextWindow ==
  \/ \E now0 \in WindowNows, tz0 \in TimeZones :
        \E lastSuccessAt \in {Null} \cup {now0 - age : age \in WindowAges} :
           CalculateWindowStart(lastSuccessAt, now0, tz0)
  \/ CallReturn

SpecWindow == InitWindow /\ [][NextWindow]_vars

(* the UTC day of the week of a time, 0 = Sunday *)
UtcDay(t) == (t \div HoursPerDay) % 7

(* C22: on a Monday with a previous success the window starts at the       *)
(* earlier of lastSuccessAt and now - 72h.                                 *)
C22_MondayWindowEarlier ==
  (/\ call.fn = "calculateWindowStart"
   /\ call.args[1] # Null
   /\ UtcDay(call.args[2]) = 1)
  => call.ret = Min2(call.args[1], call.args[2] - MondayWindowHours)

(* C23: without a previous success the window starts at now - 72h when the *)
(* UTC day of the week of now is Monday and at now - 24h otherwise,        *)
(* whatever the local time zone.                                           *)
C23_WindowWithoutSuccess ==
  (/\ call.fn = "calculateWindowStart"
   /\ call.args[1] = Null)
  => call.ret = IF UtcDay(call.args[2]) = 1
                THEN call.args[2] - MondayWindowHours
                ELSE call.args[2] - DefaultWindowHours

(***************************************************************************)
(* Properties of run()                                                     *)
(***************************************************************************)
(* C24: last_success.json is written only by the step that follows the     *)
(* deduplication and the saving of the report, in a run that is not a      *)
(* dry-run, and before the history cleanup and the close; a run that fails *)
(* before that step, or a dry-run, leaves the file as it was.              *)
C24_LastSuccessOnlyOnSuccess ==
  [][/\ lastSuccessFile' # lastSuccessFile =>
          /\ pc = "saveSuccess" /\ pc' = "cleanup"
          /\ op = "deduplicate"
          /\ report.saved
          /\ ~options.dryRun
          /\ runResult = "none"
          /\ lastSuccessFile' = now
     /\ (pc' = "done" /\ (runResult' \in {"failed", "thrown"} \/ options.dryRun))
          => lastSuccessFile' = Null
     /\ pc \in {"cleanup", "close"} => lastSuccessFile' = lastSuccessFile]_vars

(* the success time has just been written, after the report *)
C24_Witness ==
  /\ pc = "cleanup"
  /\ lastSuccessFile = now
  /\ report.saved
  /\ op = "deduplicate"

(* main(): the exit code for what run() returned or threw *)
mainExitCode(result) == IF result = "success" THEN 0 ELSE 2

(* C25: whatever sources fail, a run with its configuration present and no *)
(* thrown error deduplicates, saves the report and returns success (exit   *)
(* code 0); exit code 2 comes only from missing configuration or a thrown  *)
(* error.                                                                  *)
C25_SourceFailuresNotFatal ==
  pc = "done" =>
    /\ (configOk /\ runResult # "thrown") => runResult = "success"
    /\ (runResult = "success" /\ ~options.dryRun) => (report.saved /\ op = "deduplicate")
    /\ mainExitCode(runResult) = 2 <=> (~configOk \/ runResult = "thrown")
    /\ mainExitCode(runResult) \in {0, 2}

(* every source, tier 3 included, ended with an error and no article, and *)
(* the run succeeded                                                      *)
C25_Witness ==
  /\ pc = "done"
  /\ runResult = "success"
  /\ report.saved
  /\ EnabledIds = SourceIds
  /\ \A id \in SourceIds : collectionResult.status[id] # "success"
  /\ collectionResult.articles = <<>>
  /\ Len(collectionResult.errors) >= Cardinality(SourceIds)

(* C26: a dry-run never calls the fetch executor, leaves the sources file, *)
(* the history store and last_success.json as they were, and returns       *)
(* success once the tasks are built.                                       *)
C26_DryRunNoEffect ==
  [][options.dryRun =>
       /\ sourcesFile' = sourcesFile
       /\ store' = store
       /\ lastSuccessFile' = lastSuccessFile
       /\ report' = report
       /\ passes' = 0
       /\ \A id \in DOMAIN outcomes' : outcomes'[id].calls = 0
       /\ \A id \in SourceIds : attempts'[id] = 0
       /\ (pc' = "done" /\ configOk) => runResult' = "success"]_vars

(* a dry-run has returned success with nothing written *)
C26_Witness ==
  /\ options.dryRun
  /\ pc = "done"
  /\ runResult = "success"
  /\ collector.dryRun
  /\ store = EmptyStore
  /\ lastSuccessFile = Null
  /\ ~report.saved

(***************************************************************************)
(* Calls of Collector.collectFromSource, one source at a time              *)
(***************************************************************************)
(* the configured sources, and the repair-eligible id collected by search *)
RepairSources ==
  {[id |-> SourceDefs[i].id, tier |-> SourceDefs[i].tier, enabled |-> TRUE,
    collectMethod |-> SourceDefs[i].collectMethod,
    hasTarget |-> SourceDefs[i].hasTarget] : i \in DOMAIN SourceDefs}
  \cup {[id |-> "anthropic_blog", tier |-> 1, enabled |-> TRUE,
         collectMethod |-> "WebSearch", hasTarget |-> TRUE]}

(* what may happen during one call, the repair fetch included whether or *)
(* not the source is one that gets it                                    *)
RepairIoChoices(source) ==
  IoChoices(source)
  \cup {Io(FALSE, FetchOk, ParseFailed(n), rf, rp) :
          n \in {0, Len(SourceArticles(source.id))},
          rf \in {FetchOk, FetchFailed(ErrTimeout(source.id))},
          rp \in {Parsed(Len(SourceArticles(source.id))), ParseFailed(0)}}

InitRepair ==
  /\ DedupIdle /\ RunIdle /\ CollectIdle /\ AbortIdle /\ StoreIdle /\ AuxIdle

CollectFromSource(source, dryRun, io) ==
  /\ call.fn = "none"
  /\ call' = [fn |-> "collectFromSource",
              args |-> <<source, dryRun, io>>,
              ret |-> collectFromSource(source, dryRun, io)]
  /\ UNCHANGED <<dedupVars, runVars, collectVars, abortVars, storeVars, sh>>

NextRepair ==
  \/ \E source \in RepairSources, dryRun \in BOOLEAN :
        \E io \in RepairIoChoices(source) : CollectFromSource(source, dryRun, io)
  \/ CallReturn

SpecRepair == InitRepair /\ [][NextRepair]_vars

(* the first fetch succeeded, its content failed to parse, and the source *)
(* is the repair-eligible one fetched directly                            *)
RepairCase(source, io) ==
  /\ ~io.throws
  /\ io.fetch.success
  /\ io.parse.parseError
  /\ source.id = "anthropic_blog"
  /\ source.collectMethod = "WebFetch"
  /\ source.hasTarget

(* C27 as stated: every collectFromSource call invokes the executor twice *)
(* in the repair case and once otherwise.                                 *)
C27_OneFetchUnlessRepair ==
  call.fn = "collectFromSource" =>
    call.ret.calls = IF RepairCase(call.args[1], call.args[3]) THEN 2 ELSE 1

(* C27: a collectFromSource call that is not a dry-run and whose task has  *)
(* a URL or query invokes the executor twice in the repair case and once   *)
(* otherwise; a dry-run or a task without URL or query never invokes it.   *)
C27_RepairAtMostOnce ==
  call.fn = "collectFromSource" =>
    /\ call.ret.calls <= 2
    /\ call.ret.calls =
         IF call.args[2] \/ ~call.args[1].hasTarget THEN 0
         ELSE IF RepairCase(call.args[1], call.args[3]) THEN 2
         ELSE 1

(* the repair fetch was made, and failed too *)
C27_Witness ==
  /\ call.fn = "collectFromSource"
  /\ RepairCase(call.args[1], call.args[3])
  /\ ~call.args[2]
  /\ call.ret.calls = 2
  /\ call.ret.error # NoError

(***************************************************************************)
(* run-daily.sh: invocations p \in Procs, each with process id p.          *)
(* sh.lockDir: data/run.lock.d exists; sh.pidFile: the content of          *)
(* data/run.lock.d/pid, Null when the file does not exist; sh.pc[p]: the   *)
(* command invocation p runs next; sh.oldPid[p]: its $OLD_PID.             *)
(* Every command of the script is one step; an invocation may be killed    *)
(* (SIGKILL, power loss) between any two commands, and then runs no trap.  *)
(***************************************************************************)
ShLive(s, p) == s.pc[p] \notin {"new", "exited", "dead"}

ShStep(p, from, to) == sh.pc[p] = from /\ sh' = [sh EXCEPT !.pc[p] = to]

(* the script is started: set -e, trap cleanup EXIT (line 56) *)
ShStart(p) ==
  /\ ShStep(p, "new", "mkdir")
  /\ UNCHANGED <<dedupVars, runVars, collectVars, abortVars, storeVars, call>>

(* cleanup(): rm -rf "$LOCK_DIR", run by the EXIT trap of invocation p *)
ShCleanup(s, p) ==
  [s EXCEPT !.lockDir = FALSE, !.pidFile = Null, !.pc[p] = "exited"]

(* if mkdir "$LOCK_DIR" (line 59) *)
ShMkdir(p) ==
  /\ sh.pc[p] = "mkdir"
  /\ sh' = IF ~sh.lockDir
           THEN [sh EXCEPT !.lockDir = TRUE, !.pidFile = Null, !.pc[p] = "writePid"]
           ELSE [sh EXCEPT !.pc[p] = "testPid"]
  /\ UNCHANGED <<dedupVars, runVars, collectVars, abortVars, storeVars, call>>

(* echo $$ > "$LOCK_PID_FILE" (lines 60, 69); the redirection fails, and *)
(* set -e ends the script, when the directory is gone                     *)
ShWritePid(p) ==
  /\ sh.pc[p] = "writePid"
  /\ sh' = IF sh.lockDir
           THEN [sh EXCEPT !.pidFile = p, !.pc[p] = "main"]
           ELSE [sh EXCEPT !.pc[p] = "abort"]
  /\ UNCHANGED <<dedupVars, runVars, collectVars, abortVars, storeVars, call>>

(* if [ -f "$LOCK_PID_FILE" ] (line 63) *)
ShTestPid(p) ==
  /\ sh.pc[p] = "testPid"
  /\ sh' = [sh EXCEPT !.pc[p] = IF sh.pidFile # Null THEN "readPid" ELSE "skip"]
  /\ UNCHANGED <<dedupVars, runVars, collectVars, abortVars, storeVars, call>>

(* OLD_PID=$(cat "$LOCK_PID_FILE" 2>/dev/null) (line 64); set -e ends the *)
(* script when cat fails                                                   *)
ShReadPid(p) ==
  /\ sh.pc[p] = "readPid"
  /\ sh' = IF sh.pidFile # Null
           THEN [sh EXCEPT !.oldPid[p] = sh.pidFile, !.pc[p] = "killCheck"]
           ELSE [sh EXCEPT !.pc[p] = "abort"]
  /\ UNCHANGED <<dedupVars, runVars, collectVars, abortVars, storeVars, call>>

(* if [ -n "$OLD_PID" ] && ! kill -0 "$OLD_PID" (line 65) *)
ShKillCheck(p) ==
  /\ sh.pc[p] = "killCheck"
  /\ sh' = [sh EXCEPT !.pc[p] = IF ~ShLive(sh, sh.oldPid[p]) THEN "rmStale" ELSE "skip"]
  /\ UNCHANGED <<dedupVars, runVars, collectVars, abortVars, storeVars, call>>

(* rm -rf "$LOCK_DIR" (line 67) *)
ShRmStale(p) ==
  /\ sh.pc[p] = "rmStale"
  /\ sh' = [sh EXCEPT !.lockDir = FALSE, !.pidFile = Null, !.pc[p] = "mkdir2"]
  /\ UNCHANGED <<dedupVars, runVars, collectVars, abortVars, storeVars, call>>

(* if mkdir "$LOCK_DIR" (line 68) *)
ShMkdir2(p) ==
  /\ sh.pc[p] = "mkdir2"
  /\ sh' = IF ~sh.lockDir
           THEN [sh EXCEPT !.lockDir = TRUE, !.pidFile = Null, !.pc[p] = "writePid"]
           ELSE [sh EXCEPT !.pc[p] = "skip"]
  /\ UNCHANGED <<dedupVars, runVars, collectVars, abortVars, storeVars, call>>

(* exit (lines 73, 78, 83, after the main process, or by set -e): the EXIT *)
(* trap runs cleanup                                                       *)
ShExit(p) ==
  /\ sh.pc[p] \in {"main", "skip", "abort"}
  /\ sh' = ShCleanup(sh, p)
  /\ UNCHANGED <<dedupVars, runVars, collectVars, abortVars, storeVars, call>>

(* the invocation is killed; no trap runs *)
ShCrash(p) ==
  /\ ShLive(sh, p)
  /\ sh' = [sh EXCEPT !.pc[p] = "dead"]
  /\ UNCHANGED <<dedupVars, runVars, collectVars, abortVars, storeVars, call>>

ShCommand(p) ==
  \/ ShMkdir(p)
  \/ ShWritePid(p)
  \/ ShTestPid(p)
  \/ ShReadPid(p)
  \/ ShKillCheck(p)
  \/ ShRmStale(p)
  \/ ShMkdir2(p)
  \/ ShExit(p)

InitLock ==
  /\ DedupIdle /\ RunIdle /\ CollectIdle /\ AbortIdle /\ StoreIdle /\ AuxIdle

(* invocations started at any time, by cron and by hand *)
NextLock ==
  \E p \in Procs : ShStart(p) \/ ShCommand(p) \/ ShCrash(p)

SpecLock == InitLock /\ [][NextLock]_vars

(* one invocation at a time: the next is started when none is running *)
NextStale ==
  \E p \in Procs :
     \/ (\A q \in Procs : ~ShLive(sh, q)) /\ ShStart(p)
     \/ ShCommand(p)
     \/ ShCrash(p)

SpecStale == InitLock /\ [][NextStale]_vars

(* C28: at most one invocation of run-daily.sh is executing the main       *)
(* process at any time.                                                    *)
C28_MutualExclusion ==
  \A p \in Procs, q \in Procs :
     (sh.pc[p] = "main" /\ sh.pc[q] = "main") => p = q

(* C29: an invocation started while no other is running is never skipped, *)
(* whatever lock an instance that died has left: it reaches the main       *)
(* process.                                                                *)
C29_StaleLockRecovered ==
  \A p \in Procs : sh.pc[p] \notin {"skip", "abort"}

(***************************************************************************)
(* normalizeUrl called on valid http/https URLs, and again on its result.  *)
(***************************************************************************)
DEFAULT_NORMALIZATION_OPTIONS ==
  [removeParams |-> {"utm_source", "utm_medium", "utm_campaign", "utm_content",
                     "utm_term", "ref", "source", "via", "fbclid", "gclid",
                     "mc_cid", "mc_eid", "_ga", "_gl", "yclid", "msclkid"},
   normalizeTrailingSlash |-> TRUE,
   lowercaseHost |-> TRUE]

MaxSegments == 2
MaxWww == 2

NormalizeSegments == {"a", "", "%2F", "a%2F%2Fb", "%7Ea", "%zz"}

NormalizeUrls ==
  [ok : {TRUE}, scheme : {"http", "https"}, hostUpper : BOOLEAN, www : 0..MaxWww,
   host : {"example.com"}, path : SeqsUpTo(NormalizeSegments, MaxSegments),
   slash : BOOLEAN, params : {<<>>, <<"utm_source", "page", "id">>},
   frag : BOOLEAN, date : {Null}]

NormalizeOptions ==
  {DEFAULT_NORMALIZATION_OPTIONS,
   [DEFAULT_NORMALIZATION_OPTIONS EXCEPT !.normalizeTrailingSlash = FALSE]}

InitNormalize ==
  /\ DedupIdle /\ RunIdle /\ CollectIdle /\ AbortIdle /\ StoreIdle /\ AuxIdle

NormalizeUrl(url, urlOptions) ==
  /\ call = NoCall
  /\ call' = [fn |-> "normalizeUrl", args |-> <<url, urlOptions>>,
              ret |-> normalizeUrl(url, urlOptions)]
  /\ UNCHANGED <<dedupVars, runVars, collectVars, abortVars, storeVars, sh>>

(* the result of a call is normalised again with the same options *)
NormalizeAgain ==
  /\ call.fn = "normalizeUrl"
  /\ call' = [call EXCEPT !.args[1] = call.ret,
                          !.ret = normalizeUrl(call.ret, call.args[2])]
  /\ UNCHANGED <<dedupVars, runVars, collectVars, abortVars, storeVars, sh>>

NextNormalize ==
  \/ \E url \in NormalizeUrls, urlOptions \in NormalizeOptions :
        NormalizeUrl(url, urlOptions)
  \/ NormalizeAgain
  \/ CallReturn

SpecNormalize == InitNormalize /\ [][NextNormalize]_vars

(* C30: normalizeUrl is idempotent: normalising the result of              *)
(* normalizeUrl(u) with the default options gives that result again, for   *)
(* every valid http/https URL u.                                           *)
C30_NormalizeIdempotent ==
  (call.fn = "normalizeUrl" /\ call.args[2] = DEFAULT_NORMALIZATION_OPTIONS)
     => normalizeUrl(call.ret, DEFAULT_NORMALIZATION_OPTIONS) = call.ret

(* the same for URLs with at most one "www." label and no %2F in the path *)
C30_IdempotentPlainUrl ==
  (/\ call.fn = "normalizeUrl"
   /\ call.args[1].www <= 1
   /\ \A i \in DOMAIN call.args[1].path :
         call.args[1].path[i] \notin {"%2F", "a%2F%2Fb"})
     => normalizeUrl(call.ret, call.args[2]) = call.ret

(***************************************************************************)
(* Stage 1 on two articles whose URLs are variants of one address.         *)
(***************************************************************************)
TrackingParams ==
  {"utm_source", "utm_medium", "utm_campaign", "utm_content", "utm_term", "ref",
   "source", "via", "fbclid", "gclid", "_ga", "_gl", "mc_cid", "mc_eid", "yclid",
   "msclkid"}

VariantParams ==
  {<<>>, <<"id">>, <<"fbclid", "id">>, <<"id", "utm_source">>, <<"page", "id">>,
   <<"id", "page">>, <<"ref", "page", "id", "fbclid">>}

VariantUrls ==
  [ok : {TRUE}, scheme : {"https"}, hostUpper : BOOLEAN, www : {0, 1},
   host : {"example.com"}, path : {<<"a">>}, slash : BOOLEAN,
   params : VariantParams, frag : {FALSE}, date : {Null}]

VariantOptions == {DEFAULT_NORMALIZATION_OPTIONS, RunUrlNormalization}

InitTracking ==
  /\ DedupIdle /\ RunIdle /\ CollectIdle /\ AbortIdle /\ StoreIdle /\ AuxIdle

DeduplicateByUrl(url1, url2, urlNormalization) ==
  /\ call = NoCall
  /\ call' = [fn |-> "deduplicateByUrl", args |-> <<url1, url2, urlNormalization>>,
              ret |-> deduplicateByUrl(
                        <<RawArticle(url1, <<"a">>, "hackernews", NoText, NoText),
                          RawArticle(url2, <<"b">>, "twitter", NoText, NoText)>>,
                        urlNormalization)]
  /\ UNCHANGED <<dedupVars, runVars, collectVars, abortVars, storeVars, sh>>

NextTracking ==
  \/ \E url1 \in VariantUrls, url2 \in VariantUrls,
        urlNormalization \in VariantOptions :
        DeduplicateByUrl(url1, url2, urlNormalization)
  \/ CallReturn

SpecTracking == InitTracking /\ [][NextTracking]_vars

(* the two URLs differ at most in tracking parameters, host case, a "www." *)
(* prefix, a trailing slash and the order of the query parameters          *)
TrackingEquivalent(url1, url2) ==
  /\ url1.scheme = url2.scheme /\ url1.host = url2.host /\ url1.path = url2.path
  /\ url1.frag = url2.frag /\ url1.date = url2.date
  /\ Range(url1.params) \ TrackingParams = Range(url2.params) \ TrackingParams

(* C31: two URLs that differ only in tracking parameters, host case, a     *)
(* "www." prefix, a trailing slash or parameter order get the same         *)
(* normalizedUrl, under the default options and under the options of       *)
(* run(), so one of the two articles survives Stage 1.                     *)
C31_TrackingInsensitive ==
  (call.fn = "deduplicateByUrl" /\ TrackingEquivalent(call.args[1], call.args[2]))
     => Len(call.ret) = 1

(* the same under DEFAULT_NORMALIZATION_OPTIONS alone *)
C31_TrackingInsensitiveDefault ==
  (/\ call.fn = "deduplicateByUrl"
   /\ call.args[3] = DEFAULT_NORMALIZATION_OPTIONS
   /\ TrackingEquivalent(call.args[1], call.args[2]))
     => Len(call.ret) = 1

(***************************************************************************)
(* normalizeUrl called on any string: URLs of every scheme new URL()       *)
(* parses, and strings it does not parse.                                  *)
(***************************************************************************)
(* the call as its caller sees it: the Error thrown or the string returned *)
normalizeUrlOutcome(url, urlOptions) ==
  IF ~url.ok THEN [threw |-> TRUE, message |-> "Invalid URL", value |-> Null]
  ELSE [threw |-> FALSE, message |-> "", value |-> normalizeUrl(url, urlOptions)]

HierarchicalUrls ==
  [ok : {TRUE}, scheme : {"http", "https", "ftp"}, hostUpper : BOOLEAN, www : {0, 1},
   host : {"example.com"}, path : {<<"a">>}, slash : BOOLEAN,
   params : {<<>>, <<"id">>, <<"utm_source", "id">>}, frag : BOOLEAN, date : {Null}]

(* file:///a and mailto:a *)
OtherSchemeUrls ==
  [ok : {TRUE}, scheme : {"file", "mailto"}, hostUpper : {FALSE}, www : {0},
   host : {""}, path : {<<"a">>}, slash : {FALSE}, params : {<<>>}, frag : {FALSE},
   date : {Null}]

(* 'not-a-valid-url' and '' *)
UnparsableStrings ==
  [ok : {FALSE}, scheme : {""}, hostUpper : {FALSE}, www : {0}, host : {""},
   path : {<<"not-a-valid-url">>, <<>>}, slash : {FALSE}, params : {<<>>},
   frag : {FALSE}, date : {Null}]

AnyStrings == HierarchicalUrls \cup OtherSchemeUrls \cup UnparsableStrings

InitReject ==
  /\ DedupIdle /\ RunIdle /\ CollectIdle /\ AbortIdle /\ StoreIdle /\ AuxIdle

NormalizeAny(url) ==
  /\ call = NoCall
  /\ call' = [fn |-> "normalizeUrl", args |-> <<url>>,
              ret |-> normalizeUrlOutcome(url, DEFAULT_NORMALIZATION_OPTIONS)]
  /\ UNCHANGED <<dedupVars, runVars, collectVars, abortVars, storeVars, sh>>

NextReject ==
  \/ \E url \in AnyStrings : NormalizeAny(url)
  \/ CallReturn

SpecReject == InitReject /\ [][NextReject]_vars

(* C32: normalizeUrl throws Invalid URL, and returns nothing, for every    *)
(* input that is not an http or https URL: an unparsable string or a URL   *)
(* of another scheme.                                                      *)
C32_RejectsNonHttp ==
  (/\ call.fn = "normalizeUrl"
   /\ (~call.args[1].ok \/ call.args[1].scheme \notin {"http", "https"}))
     => (call.ret.threw /\ call.ret.message = "Invalid URL" /\ call.ret.value = Null)

(* the same for the strings new URL() does not parse *)
C32_RejectsUnparsable ==
  (call.fn = "normalizeUrl" /\ ~call.args[1].ok)
     => (call.ret.threw /\ call.ret.message = "Invalid URL" /\ call.ret.value = Null)

(***************************************************************************)
(* Properties of the history after deduplicate                             *)
(***************************************************************************)
(* C33: when deduplicate returns, the history holds what it held before    *)
(* and one new entry per output article, under the article's normalizedUrl *)
(* and with firstSeenAt = lastSeenAt = the time of the call; an article of *)
(* the batch that is not in the output has added no entry.                 *)
C33_HistoryGrowsByOutput ==
  [][(op = "idle" /\ op' = "deduplicate") =>
       /\ store \subseteq store'
       /\ Cardinality(store') = Cardinality(store) + Len(dedupResult'.articles)
       /\ \A i \in DOMAIN dedupResult'.articles :
             \E r \in store' :
                /\ r.normalizedUrl = dedupResult'.articles[i].normalizedUrl
                /\ r.firstSeenAt = now /\ r.lastSeenAt = now
       /\ \A r \in store' \ store :
             \E i \in DOMAIN dedupResult'.articles :
                dedupResult'.articles[i].normalizedUrl = r.normalizedUrl]_vars

C33_Witness ==
  /\ op = "deduplicate"
  /\ dedupResult.articles # <<>>
  /\ \A i \in DOMAIN dedupResult.articles :
        \E r \in store : /\ r.normalizedUrl = dedupResult.articles[i].normalizedUrl
                         /\ r.firstSeenAt = now
  /\ \E i \in DOMAIN batch :
        /\ NormalizedUrlOf(batch[i], RunUrlNormalization)
             \notin {r.normalizedUrl : r \in store}

(***************************************************************************)
(* Runs of deduplicate over one history store, the first of them           *)
(* remembered: call.args = <<its batch, the history it found>>, call.ret   *)
(* = its result.                                                           *)
(***************************************************************************)
RememberedRun(articles, lastSuccessAt) ==
  LET r == deduplicate(store, DedupOptions(lastSuccessAt), articles,
                       SampleDateMethodMap, now, tz)
  IN /\ op = "idle"
     /\ store' = r.store
     /\ dedupResult' = [articles |-> r.articles, stats |-> r.stats]
     /\ batch' = articles
     /\ op' = "deduplicate"
     /\ call' = IF call = NoCall
                THEN [fn |-> "deduplicate", args |-> <<articles, store>>,
                      ret |-> dedupResult']
                ELSE call
     /\ UNCHANGED <<now, tz, runVars, collectVars, abortVars, storeVars, sh>>

(* batches of the two articles with near-duplicate titles and a third one *)
ResurfaceBatches == {b \in Batches : Range(b) \subseteq {ArtA, ArtB, ArtD}}

NextResurface ==
  \/ \E articles \in ResurfaceBatches : RememberedRun(articles, Null)
  \/ Close
  \/ \E retentionDays \in RetentionChoices : Cleanup(retentionDays)
  \/ Tick

SpecResurface == InitDedup /\ [][NextResurface]_vars

(* y went into the similarity stage of the remembered run and was dropped  *)
(* there, and its title is a Layer 2 or Layer 3 match of the title of x,   *)
(* an article that run returned                                            *)
DroppedAsNearDuplicate(y, x) ==
  LET before == deduplicateByHistory(
                  call.args[2], deduplicateByUrl(call.args[1], RunUrlNormalization))
      after == deduplicateBySimilarity(before, DedupThresholds)
  IN /\ \E i \in DOMAIN before : before[i].url = y.url /\ before[i].title = y.title
     /\ ~\E i \in DOMAIN after : after[i].url = y.url /\ after[i].title = y.title
     /\ x.url # y.url
     /\ \/ checkLayer2Similarity(y.title, x.title, isSameDomain(x.url, y.url),
                                 DedupThresholds, y.source)
        \/ findMostSimilar(y.title, <<x.title>>, DedupThresholds, y.source, y.url)

(* C34: an article dropped by the title check as a near-duplicate of an    *)
(* article x the remembered run returned is not returned by a later run    *)
(* while x is in the history.                                              *)
C34_NoResurface ==
  (op = "deduplicate" /\ call.fn = "deduplicate") =>
     \A j \in DOMAIN call.args[1], k \in DOMAIN call.ret.articles :
        (/\ DroppedAsNearDuplicate(call.args[1][j], call.ret.articles[k])
         /\ \E r \in store : r.normalizedUrl = call.ret.articles[k].normalizedUrl)
           => \A i \in DOMAIN dedupResult.articles :
                 ~(/\ dedupResult.articles[i].url = call.args[1][j].url
                   /\ dedupResult.articles[i].title = call.args[1][j].title)

(* C35: when run() has ended, every entry the run wrote to the history is  *)
(* an article of a report the run saved, also when the run failed after    *)
(* the deduplication.                                                      *)
C35_HistoryOnlyOfReported ==
  pc = "done" =>
     \A r \in store :
        /\ report.saved
        /\ \E i \in DOMAIN report.articles :
              report.articles[i].normalizedUrl = r.normalizedUrl

(* C36: every article deduplicate returns has isNew = TRUE, so             *)
(* stats.freshArticles is the number of returned articles; an article with *)
(* dateConfidence unknown has no resolved date, and no returned article    *)
(* has a resolved date before the window start.                            *)
C36_OutputIsNew ==
  op = "deduplicate" =>
     /\ \A i \in DOMAIN dedupResult.articles : dedupResult.articles[i].isNew
     /\ dedupResult.stats.freshArticles = Len(dedupResult.articles)
     /\ \A i \in DOMAIN dedupResult.articles :
           dedupResult.articles[i].dateConfidence = "unknown"
              => dedupResult.articles[i].publishedAt = Null
     /\ \E lastSuccessAt \in {Null, StartNow} :
           \A i \in DOMAIN dedupResult.articles :
              dedupResult.articles[i].dateConfidence \in {"high", "medium", "low"}
                 => dedupResult.articles[i].publishedAt
                      >= calculateWindowStart(lastSuccessAt, now, tz)

(* an undated article is returned as new, another article was dropped by  *)
(* the freshness filter                                                    *)
C36_Witness ==
  /\ op = "deduplicate"
  /\ \E i \in DOMAIN dedupResult.articles :
        /\ dedupResult.articles[i].dateConfidence = "unknown"
        /\ dedupResult.articles[i].isNew
  /\ dedupResult.stats.afterSimilarityDedup > Len(dedupResult.articles)

(***************************************************************************)
(* collectAll with the loop of chunkArray taken one iteration at a time:   *)
(* call.args = <<array, size>>, call.ret = [i, chunks] are the variables   *)
(* of the loop. rateControl.maxConcurrency is any number from 0.           *)
(* Every fetch settles and no code waits for anything else: weak fairness  *)
(* of the next-state relation.                                             *)
(***************************************************************************)
(* the heap holds no more than MaxChunks chunks *)
MaxChunks == 4

ChunkLoop(array, size) ==
  [fn |-> "chunkArray", args |-> <<array, size>>, ret |-> [i |-> 0, chunks |-> <<>>]]

InitTerminate ==
  /\ DedupIdle /\ AbortIdle /\ StoreIdle
  /\ sh = ShIdle
  /\ pc = "collectAll"
  /\ options = [dryRun |-> FALSE, autoDisableUnstableSources |-> TRUE,
                rerunAfterDisable |-> TRUE]
  /\ configOk = TRUE
  /\ \E enabled \in CollectEnabledChoices, m \in 0..MaxConcurrency :
        sourcesFile = SourcesConfig(enabled, m)
  /\ lastSuccessFile = Null
  /\ configs = loadAllConfigs(sourcesFile, lastSuccessFile)
  /\ collector = createCollector(configs.sources, FALSE)
  /\ passes = 0
  /\ collectionResult = EmptyAcc
  /\ disabledSourceIds = <<>>
  /\ report = NoReport
  /\ runResult = "none"
  /\ tier = 1
  /\ call = ChunkLoop(TierSources(collector.sourcesConfig, 1), collector.maxConcurrency)
  /\ chunks = <<>>
  /\ current = <<>> /\ inflight = {}
  /\ results = EmptyMap /\ tierAcc = EmptyAcc /\ acc = EmptyAcc
  /\ attempts = [id \in SourceIds |-> 0] /\ outcomes = EmptyMap

(* for (let i = 0; i < array.length; i += size) chunks.push(slice(i, i + size)); *)
(* the process ends with a fatal error when the heap is exhausted           *)
ChunkStep ==
  LET array == call.args[1]
      size == call.args[2]
      i == call.ret.i
  IN /\ call.fn = "chunkArray"
     /\ i < Len(array)
     /\ call' = IF Len(call.ret.chunks) >= MaxChunks
                THEN [call EXCEPT !.fn = "heap out of memory"]
                ELSE [call EXCEPT
                        !.ret = [i |-> i + size,
                                 chunks |-> Append(call.ret.chunks,
                                                   SubSeq(array, i + 1,
                                                          Min2(i + size, Len(array))))]]
     /\ UNCHANGED <<dedupVars, runVars, collectVars, abortVars, storeVars, sh>>

(* return chunks; *)
ChunkReturn ==
  /\ call.fn = "chunkArray"
  /\ ~(call.ret.i < Len(call.args[1]))
  /\ chunks' = call.ret.chunks
  /\ call' = NoCall
  /\ UNCHANGED <<tier, current, inflight, results, tierAcc, acc, attempts, outcomes,
                 dedupVars, runVars, abortVars, storeVars, sh>>

(* collectSources returns; collectAll merges and calls it for the next tier *)
TierReturnChunking ==
  /\ tier \in 1..3
  /\ call = NoCall
  /\ current = <<>>
  /\ chunks = <<>>
  /\ acc' = MergeTier(acc, tierAcc)
  /\ tierAcc' = EmptyAcc
  /\ tier' = tier + 1
  /\ call' = IF tier < 3
             THEN ChunkLoop(TierSources(collector.sourcesConfig, tier + 1),
                            collector.maxConcurrency)
             ELSE NoCall
  /\ UNCHANGED <<chunks, current, inflight, results, attempts, outcomes,
                 dedupVars, runVars, abortVars, storeVars, sh>>

NextTerminate ==
  \/ ChunkStep
  \/ ChunkReturn
  \/ StartChunk
  \/ \E id \in SourceIds :
       \E io \in IoChoices(SourceOf(collector.sourcesConfig, id)) : Settle(id, io)
  \/ JoinChunk
  \/ TierReturnChunking
  \/ CollectAllReturn

SpecTerminate == InitTerminate /\ [][NextTerminate]_vars /\ WF_vars(NextTerminate)

(* C37: collectAll returns a result, for every sources configuration and   *)
(* every rateControl.maxConcurrency >= 0, when every fetch settles.        *)
C37_CollectAllTerminates == <>(pc = "returned")

(* the same for rateControl.maxConcurrency >= 1 *)
C37_TerminatesPositive == (collector.maxConcurrency >= 1) => <>(pc = "returned")

(* C38: the lock directory is removed only by a step of an invocation that *)
(* created it (it is at the main process, or ends after its PID write      *)
(* failed), or of an invocation that read the PID of a process that is     *)
(* gone; an invocation that is skipped removes nothing.                    *)
C38_LockRemovedByOwner ==
  [][(sh.lockDir /\ ~sh'.lockDir) =>
       \E p \in Procs :
          /\ sh'.pc[p] # sh.pc[p]
          /\ \/ sh.pc[p] \in {"main", "abort"}
             \/ sh.pc[p] = "rmStale" /\ ~ShLive(sh, sh.oldPid[p])]_vars

(***************************************************************************)
(* disableSources called on a sources file, one call after another.        *)
(* call.args = <<sourceIds, the file before>>, call.ret = [disabled,       *)
(* written]; sourcesFile is the file after the call.                       *)
(***************************************************************************)
MaxIds == 2

DisableIds == SeqsUpTo(SourceIds \cup {"no_such_source"}, MaxIds)

EnabledChoices == [SourceIds -> BOOLEAN]

InitDisable ==
  /\ DedupIdle /\ CollectIdle /\ AbortIdle /\ StoreIdle /\ AuxIdle
  /\ pc = "idle"
  /\ options = [dryRun |-> FALSE, autoDisableUnstableSources |-> TRUE,
                rerunAfterDisable |-> TRUE]
  /\ configOk = TRUE
  /\ \E enabled \in EnabledChoices, m \in 1..MaxConcurrency :
        sourcesFile = SourcesConfig(enabled, m)
  /\ lastSuccessFile = Null
  /\ configs = loadAllConfigs(SourcesConfig(AllEnabled, 1), Null)
  /\ collector = createCollector(SourcesConfig(AllEnabled, 1), FALSE)
  /\ passes = 0
  /\ collectionResult = EmptyAcc
  /\ disabledSourceIds = <<>>
  /\ report = NoReport
  /\ runResult = "none"

DisableSources(sourceIds) ==
  LET d == disableSources(sourceIds, sourcesFile)
  IN /\ call = NoCall
     /\ sourcesFile' = d.file
     /\ call' = [fn |-> "disableSources", args |-> <<sourceIds, sourcesFile>>,
                 ret |-> [disabled |-> d.disabled, written |-> d.written]]
     /\ UNCHANGED <<pc, options, configOk, lastSuccessFile, configs, collector, passes,
                    collectionResult, disabledSourceIds, report, runResult,
                    dedupVars, collectVars, abortVars, storeVars, sh>>

NextDisable ==
  \/ \E sourceIds \in DisableIds : DisableSources(sourceIds)
  \/ CallReturn

SpecDisable == InitDisable /\ [][NextDisable]_vars

(* C39: after disableSources(ids, file) the sources that were enabled and  *)
(* are named in ids are disabled and are the ids returned; every other     *)
(* source, every other field and rateControl are as before; the file is    *)
(* written exactly when an id is returned; the same call made again        *)
(* returns no id.                                                          *)
C39_DisableExactly ==
  call.fn = "disableSources" =>
     LET ids == Range(call.args[1])
         before == call.args[2]
         hit == {i \in DOMAIN before.sources :
                   before.sources[i].id \in ids /\ before.sources[i].enabled}
     IN /\ DOMAIN sourcesFile.sources = DOMAIN before.sources
        /\ \A i \in DOMAIN before.sources :
              sourcesFile.sources[i]
                = IF i \in hit THEN [before.sources[i] EXCEPT !.enabled = FALSE]
                  ELSE before.sources[i]
        /\ sourcesFile.rateControl = before.rateControl
        /\ Range(call.ret.disabled) = {before.sources[i].id : i \in hit}
        /\ Len(call.ret.disabled) = Cardinality(hit)
        /\ call.ret.written = (hit # {})
        /\ (~call.ret.written) => sourcesFile = before
        /\ disableSources(call.args[1], sourcesFile).disabled = <<>>

(* a call that disabled one source, was also given an id that was not      *)
(* enabled or not in the file, and left another source enabled             *)
C39_Witness ==
  /\ call.fn = "disableSources"
  /\ call.ret.disabled # <<>>
  /\ \E id \in Range(call.args[1]) : id \notin Range(call.ret.disabled)
  /\ \E i \in DOMAIN sourcesFile.sources : sourcesFile.sources[i].enabled

(***************************************************************************)
(* Query generation and the queries of a search source's task.             *)
(* A query group is [id, keywords, finalWeight]: keywords is the number of *)
(* its keywords, finalWeight its weight after the recency and frequency    *)
(* factors, in tenths so that the 0.9 of a combined query stays integral.  *)
(* A generated query is [query, groupId, finalWeight].                     *)
(***************************************************************************)
MaxGroups == 6
MaxKeywords == 2
GroupWeights == {10, 20}
TopNChoices == {4, 3 * MaxGroups}

(* the hard-coded maxPerSource of Collector.getQueriesForSource *)
CollectorMaxPerSource == 5

(* the pairs i < j of the first n keywords, in the order of the two loops *)
KeywordPairs(n) ==
  LET pairs == {p \in (1..n) \X (1..n) : p[1] < p[2]}
      before(p, q) == p[1] < q[1] \/ (p[1] = q[1] /\ p[2] < q[2])
  IN [k \in 1..Cardinality(pairs) |->
        CHOOSE p \in pairs : Cardinality({q \in pairs : before(q, p)}) = k - 1]

generateCombinedQueries(config, group) ==
  LET maxCombinations == config.combinedQueries.maxCombinations
      pairs == KeywordPairs(Min2(group.keywords, maxCombinations * 2))
  IN [k \in 1..Min2(Len(pairs), maxCombinations) |->
        [query |-> pairs[k], groupId |-> group.id,
         finalWeight |-> (group.finalWeight * 9) \div 10]]

RECURSIVE generateQueries(_, _)
generateQueries(config, g) ==
  IF g > Len(config.queryGroups) THEN <<>>
  ELSE LET group == config.queryGroups[g]
       IN [k \in 1..group.keywords |->
             [query |-> <<k>>, groupId |-> group.id, finalWeight |-> group.finalWeight]]
          \o (IF config.combinedQueries.enabled
              THEN generateCombinedQueries(config, group) ELSE <<>>)
          \o generateQueries(config, g + 1)

(* queries.sort((a, b) => b.finalWeight - a.finalWeight): stable, heaviest first *)
RECURSIVE sortByFinalWeight(_)
sortByFinalWeight(qs) ==
  IF qs = <<>> THEN <<>>
  ELSE LET top == CHOOSE w \in {qs[i].finalWeight : i \in DOMAIN qs} :
                     \A i \in DOMAIN qs : qs[i].finalWeight <= w
       IN SelectSeq(qs, LAMBDA q : q.finalWeight = top)
          \o sortByFinalWeight(SelectSeq(qs, LAMBDA q : q.finalWeight # top))

(* generate(): result.queries *)
generate(config) ==
  LET sorted == sortByFinalWeight(generateQueries(config, 1))
  IN SubSeq(sorted, 1, Min2(Len(sorted), config.selection.topN))

(* the loop shared by both getQueriesForSource methods *)
RECURSIVE selectOnePerGroup(_, _, _, _)
selectOnePerGroup(qs, i, maxPerSource, result) ==
  IF i > Len(qs) \/ Len(result) >= maxPerSource THEN result
  ELSE IF \E j \in DOMAIN result : result[j].groupId = qs[i].groupId
       THEN selectOnePerGroup(qs, i + 1, maxPerSource, result)
       ELSE selectOnePerGroup(qs, i + 1, maxPerSource, Append(result, qs[i]))

(* QueryGenerator.getQueriesForSource(sourceId, queries) *)
getQueriesForSource(config, qs) ==
  selectOnePerGroup(qs, 1, config.selection.maxPerSource, <<>>)

(* Collector.getQueriesForSource(), over this.queries *)
CollectorGetQueriesForSource(qs) ==
  selectOnePerGroup(qs, 1, CollectorMaxPerSource, <<>>)

(* a queries config of n groups, l[g] = <<keywords, finalWeight>> of group g *)
QueriesConfig(l, enabled, topN, maxPerSource) ==
  [queryGroups |-> [g \in DOMAIN l |->
                      [id |-> g, keywords |-> l[g][1], finalWeight |-> l[g][2]]],
   combinedQueries |-> [enabled |-> enabled, maxCombinations |-> 1],
   selection |-> [topN |-> topN, maxPerSource |-> maxPerSource]]

InitQueries ==
  /\ DedupIdle /\ RunIdle /\ CollectIdle /\ AbortIdle /\ StoreIdle
  /\ sh = ShIdle
  /\ \E n \in 1..MaxGroups :
        \E l \in [1..n -> (1..MaxKeywords) \X GroupWeights], e \in BOOLEAN,
           t \in TopNChoices, m \in 1..MaxGroups :
           call = [fn |-> "createQueryGenerator",
                   args |-> <<QueriesConfig(l, e, t, m)>>, ret |-> Null]

(* queryGenerator.generate() of run() *)
Generate ==
  /\ call.fn = "createQueryGenerator"
  /\ call' = [fn |-> "generate", args |-> call.args, ret |-> generate(call.args[1])]
  /\ UNCHANGED <<dedupVars, runVars, collectVars, abortVars, storeVars, sh>>

(* createCollector({queries}) and buildTask of a WebSearch source other    *)
(* than twitter: ret is sourceQueries                                      *)
BuildTask ==
  /\ call.fn = "generate"
  /\ call' = [fn |-> "buildTask", args |-> <<call.args[1], call.ret>>,
              ret |-> CollectorGetQueriesForSource(call.ret)]
  /\ UNCHANGED <<dedupVars, runVars, collectVars, abortVars, storeVars, sh>>

(* queryGenerator.getQueriesForSource(sourceId, result.queries) *)
GetQueriesForSource ==
  /\ call.fn = "generate"
  /\ call' = [fn |-> "getQueriesForSource", args |-> <<call.args[1], call.ret>>,
              ret |-> getQueriesForSource(call.args[1], call.ret)]
  /\ UNCHANGED <<dedupVars, runVars, collectVars, abortVars, storeVars, sh>>

NextQueries == Generate \/ BuildTask \/ GetQueriesForSource

SpecQueries == InitQueries /\ [][NextQueries]_vars

(* the allocation the specification describes, of the list qs to result *)
AllocatedPerSource(config, qs, result) ==
  /\ IsSubsequence(result, qs)
  /\ \A i \in DOMAIN qs : \A j \in DOMAIN qs :
        i < j => qs[i].finalWeight >= qs[j].finalWeight
  /\ Len(result) <= config.selection.maxPerSource
  /\ \A i \in DOMAIN result : \A j \in DOMAIN result :
        i # j => result[i].groupId # result[j].groupId

(* C40: the queries the Collector puts into a search source's task are     *)
(* taken in order from the weight-sorted list, are at most                 *)
(* selection.maxPerSource, and hold at most one query per query group.     *)
C40_CollectorAllocation ==
  call.fn = "buildTask" => AllocatedPerSource(call.args[1], call.args[2], call.ret)

(* the same of QueryGenerator.getQueriesForSource *)
C40_GeneratorAllocation ==
  call.fn = "getQueriesForSource"
     => AllocatedPerSource(call.args[1], call.args[2], call.ret)

====
